---------------------------- MODULE Spec2Model ----------------------------
(***************************************************************************)
(* wdedup: find the first word of a file that occurs exactly once, with a  *)
(* bounded working memory and a write-ahead log that lets a killed run be  *)
(* resumed.  The model follows main.cpp (start-up), wprof.cpp (profiling), *)
(* wmerge.cpp (planning, replay, merging, garbage collection) and          *)
(* wfindfirst.cpp, over an explicit working directory (the log and the     *)
(* profile files) that survives a kill of the process.                     *)
(*                                                                         *)
(* Bytes are natural numbers, words and files are sequences.  The log is   *)
(* a sequence of fields (a type tag or a fixed-width integer each).        *)
(***************************************************************************)
EXTENDS Integers, Sequences, FiniteSets, TLC

(***************************************************************************)
(* Bounds of the model.                                                    *)
(***************************************************************************)
\* longest original file, in bytes
MaxInputLen == 6
\* largest working memory, in dedup items
MaxItems == 2
\* number of times the program is started on the working directory
MaxRuns == 2
\* fileoff_t is unsigned 64-bit; the model keeps its modular arithmetic with
\* a reduced modulus, larger than every offset of a file of MaxInputLen bytes
OffMod == 16
\* largest occur field of a record drawn for the merge pass on its own
MaxOcc == 2
\* most leaf segments given to a merge planner constructed on its own
MaxLeaves == 3
\* most successful inserts into a dedup pool filled on its own
MaxInserts == 3
\* most values written to an append file that is read back on its own
MaxValues == 3

(***************************************************************************)
(* Program constants.                                                      *)
(***************************************************************************)
\* read and write buffer size of the file layer
bufsiz == 4096
\* sizeof(Bloom::bloom_t)
BloomWidth == 8
\* sizeof(TreeDedupItem): rb-tree entry, Bloom and occur
ItemSize == 56
\* the build's version tag "20190609.0001", kept as its date number
Version == 20190609
\* log type tags: 's', 'e' (WProfLog), 'm', 'x' (WMergeLog)
TagSegment == 115
TagEnd == 101
TagMerge == 109
TagMergeEnd == 120

\* the bytes an original file is made of: space and 'a'; its words are a,
\* aa, aaa, ..., which byte-wise comparison orders by length
Bytes == {32, 97}

\* nullptr of a const char* entry; a token read from the file is never empty
NullEntry == <<>>

Min(a, b) == IF a < b THEN a ELSE b

\* isWhitespace(c)
isWhitespace(c) == c \in {32, 9, 10, 13}

(***************************************************************************)
(* Byte-wise comparison of two strings: std::string::compare and strcmp.   *)
(***************************************************************************)
RECURSIVE StrCmp(_, _)
StrCmp(a, b) ==
    IF a = <<>> /\ b = <<>> THEN 0
    ELSE IF a = <<>> THEN -1
    ELSE IF b = <<>> THEN 1
    ELSE IF Head(a) < Head(b) THEN -1
    ELSE IF Head(a) > Head(b) THEN 1
    ELSE StrCmp(Tail(a), Tail(b))

(***************************************************************************)
(* Bloom-ed strings (wbloom.hpp).  bloom is the big-endian number made of  *)
(* the first BloomWidth bytes, zero padded; it is kept as its sequence of  *)
(* base-256 digits, whose lexicographic order is the numeric order.        *)
(* pool is the rest of the word, hasPool tells pool != nullptr.            *)
(***************************************************************************)
Decompose(word) ==
    [bloom   |-> [n \in 1..BloomWidth |->
                    IF n <= Len(word) THEN word[n] ELSE 0],
     hasPool |-> BloomWidth < Len(word),
     pool    |-> IF BloomWidth < Len(word)
                 THEN SubSeq(word, BloomWidth + 1, Len(word)) ELSE <<>>,
     allocpool |-> IF BloomWidth < Len(word)
                   THEN Len(word) - BloomWidth + 1 ELSE 0]

\* Bloom::operator-
BloomCmp(l, r) ==
    IF l.bloom # r.bloom THEN StrCmp(l.bloom, r.bloom)
    ELSE IF ~l.hasPool THEN (IF ~r.hasPool THEN 0 ELSE -1)
    ELSE IF ~r.hasPool THEN 1
    ELSE StrCmp(l.pool, r.pool)

\* the bytes of a C string: up to the first NUL
RECURSIVE CStr(_)
CStr(s) == IF s = <<>> \/ Head(s) = 0 THEN <<>> ELSE <<Head(s)>> \o CStr(Tail(s))

\* Bloom::reconstruct
Reconstruct(b) == CStr(b.bloom) \o (IF b.hasPool THEN b.pool ELSE <<>>)

(***************************************************************************)
(* Working memory manager (wwmman.hpp) and the tree dedup pool             *)
(* (wtreededup.cpp).  The red-black tree is kept as the sequence of its    *)
(* items in key order, which is all that find, insert and the in-order     *)
(* walk of pour observe.  occur = 0 marks a repeated word, otherwise it is *)
(* the offset of the first occurrence plus one.                            *)
(***************************************************************************)
NewDedup == [arraysize |-> 0, poolsize |-> 0, items |-> <<>>]

\* a test that leaves the pool part asked for out of the count
AllocFitsItem(d, allocpool, vm) ==
    d.poolsize + (d.arraysize + 1) * ItemSize <= vm

\* MemoryManager::alloc: whether the allocation can be completed
AllocFits(d, allocpool, vm) ==
    (allocpool + d.poolsize) + (d.arraysize + 1) * ItemSize <= vm

\* some element of hit, dflt when hit is empty
PickOr(hit, dflt) == IF hit = {} THEN dflt ELSE CHOOSE i \in hit : TRUE

\* the least element of hit, dflt when hit is empty
MinOr(hit, dflt) ==
    IF hit = {} THEN dflt ELSE CHOOSE i \in hit : \A j \in hit : i <= j

\* position of the item with the same key, 0 if there is none (RB_FIND)
FindItem(d, b) ==
    PickOr({i \in 1..Len(d.items) : BloomCmp(d.items[i].key, b) = 0}, 0)

\* the sequence with it put after the first k items
InsertAfter(items, it, k) ==
    SubSeq(items, 1, k) \o <<it>> \o SubSeq(items, k + 1, Len(items))

\* RB_INSERT: the new item goes after all the items with a smaller key
TreeInsert(items, it) ==
    InsertAfter(items, it,
        Cardinality({i \in 1..Len(items) : BloomCmp(items[i].key, it.key) < 0}))

\* an insert that asks for the memory before it looks for the word
InsertKeyAllocFirst(d, b, f, off, vm) ==
    IF ~AllocFits(d, b.allocpool, vm) THEN [ok |-> FALSE, dedup |-> d]
    ELSE IF f # 0
    THEN [ok |-> TRUE, dedup |-> [d EXCEPT !.items[f].occur = 0]]
    ELSE [ok |-> TRUE,
          dedup |-> [arraysize |-> d.arraysize + 1,
                     poolsize  |-> d.poolsize + b.allocpool,
                     items     |-> TreeInsert(d.items,
                                     [key |-> b, occur |-> (off + 1) % OffMod])]]

\* an insert that leaves the item it finds as it is
InsertKeyKeepOccur(d, b, f, off, vm) ==
    IF f # 0
    THEN [ok |-> TRUE, dedup |-> d]
    ELSE IF ~AllocFits(d, b.allocpool, vm) THEN [ok |-> FALSE, dedup |-> d]
    ELSE [ok |-> TRUE,
          dedup |-> [arraysize |-> d.arraysize + 1,
                     poolsize  |-> d.poolsize + b.allocpool,
                     items     |-> TreeInsert(d.items,
                                     [key |-> b, occur |-> (off + 1) % OffMod])]]

\* TreeDedup::insert of the decomposed word b, found at position f
InsertKey(d, b, f, off, vm) ==
    IF f # 0
    THEN [ok |-> TRUE, dedup |-> [d EXCEPT !.items[f].occur = 0]]
    ELSE IF ~AllocFits(d, b.allocpool, vm) THEN [ok |-> FALSE, dedup |-> d]
    ELSE [ok |-> TRUE,
          dedup |-> [arraysize |-> d.arraysize + 1,
                     poolsize  |-> d.poolsize + b.allocpool,
                     items     |-> TreeInsert(d.items,
                                     [key |-> b, occur |-> (off + 1) % OffMod])]]

\* TreeDedup::insert: [ok, dedup]
DedupInsert(d, word, off, vm) ==
    IF Len(word) = 0 THEN [ok |-> FALSE, dedup |-> d]
    ELSE InsertKey(d, Decompose(word), FindItem(d, Decompose(word)), off, vm)

(***************************************************************************)
(* Profile items and the simple profile codec (wprofile.hpp,               *)
(* wpflsimple.cpp).  A record on disk is the word and the biased occur:    *)
(* 0 for a repeated word, occur + 1 otherwise.                             *)
(***************************************************************************)
RepeatedItem(word) == [word |-> word, repeated |-> TRUE, occur |-> 0]
SingleItem(word, occur) == [word |-> word, repeated |-> FALSE, occur |-> occur]

\* ProfileOutputSimple::push: the record written for an item
PushRecord(pi) ==
    [word |-> pi.word,
     occ  |-> IF pi.repeated THEN 0 ELSE (pi.occur + 1) % OffMod]

\* ProfileInputSimple::popFill: the item read from a record
FillItem(rec) ==
    IF rec.occ = 0 THEN [word |-> rec.word, repeated |-> TRUE, occur |-> 0]
    ELSE [word |-> rec.word, repeated |-> FALSE, occur |-> rec.occ - 1]

\* the items a ProfileInputSimple yields from a file, head first
ReadProfile(recs) == [i \in 1..Len(recs) |-> FillItem(recs[i])]

\* the records a sequence of pushes leaves in the output buffer
WriteProfile(pis) == [i \in 1..Len(pis) |-> PushRecord(pis[i])]

\* TreeDedup::pour: the items pushed by the in-order walk
PourItems(d) ==
    [i \in 1..Len(d.items) |->
        IF d.items[i].occur = 0
        THEN RepeatedItem(Reconstruct(d.items[i].key))
        ELSE SingleItem(Reconstruct(d.items[i].key), d.items[i].occur - 1)]


(***************************************************************************)
(* The sequential file over the original file (wiobase.cpp, wio.hpp).  A   *)
(* file handle is [seek, tell]: the offset it was opened at and the        *)
(* current position.  The read buffer holds the bytes up to the end of the *)
(* current bufsiz-sized chunk, chunks being counted from seek.             *)
(***************************************************************************)
OpenSeq(seekset) == [seek |-> seekset, tell |-> seekset]

\* SequentialFile::eof, as set by checkeof: no byte is left
FileEof(inp, f) == f.tell >= Len(inp)

\* bufferptr: the size of the buffer handed out at the current position
BufferLen(inp, f) ==
    Min(Len(inp) - f.tell, bufsiz - ((f.tell - f.seek) % bufsiz))

\* bufferptr: the i-th byte (from 0) of the buffer handed out
BufferAt(inp, f, i) == inp[f.tell + i + 1]

\* bufferskip: consume k bytes of the buffer
BufferSkip(f, k) == [f EXCEPT !.tell = f.tell + k]

\* the first i in 0..n-1 whose buffer byte is (isWs) / is not (~isWs)
\* whitespace; n, the size of the buffer, if there is none
FirstInBuffer(inp, f, isWs) ==
    MinOr({i \in 0..(BufferLen(inp, f) - 1) :
              isWhitespace(BufferAt(inp, f, i)) = isWs},
          BufferLen(inp, f))

\* the first k bytes of the buffer handed out
BufferPrefix(inp, f, k) == SubSeq(inp, f.tell + 1, f.tell + k)

\* eliminateWhitespace
RECURSIVE eliminateWhitespace(_, _)
\* the scan of a buffer of n bytes whose first non-whitespace is at i
ElimScan(inp, f, n, i) ==
    IF i < n THEN (IF i > 0 THEN BufferSkip(f, i) ELSE f)
    ELSE eliminateWhitespace(inp, BufferSkip(f, n))

eliminateWhitespace(inp, f) ==
    IF FileEof(inp, f) THEN f
    ELSE ElimScan(inp, f, BufferLen(inp, f), FirstInBuffer(inp, f, FALSE))

\* readString, the loop that caches a word longer than the buffer: [f, word]
RECURSIVE CacheWord(_, _, _)
\* the scan of the next buffer, of m bytes with its first whitespace at i
CacheScan(inp, f1, c1, m, i) ==
    IF i < m
    THEN [f |-> BufferSkip(f1, i + 1), word |-> c1 \o BufferPrefix(inp, f1, i)]
    ELSE CacheWord(inp, f1, c1)

\* after the previous buffer went to the cache
CacheSkipped(inp, f1, c1) ==
    IF FileEof(inp, f1) THEN [f |-> f1, word |-> c1]
    ELSE CacheScan(inp, f1, c1, BufferLen(inp, f1), FirstInBuffer(inp, f1, TRUE))

CacheWord(inp, f, cache) ==
    CacheSkipped(inp, BufferSkip(f, BufferLen(inp, f)),
                 cache \o BufferPrefix(inp, f, BufferLen(inp, f)))

\* readString, the word came from the cache
ReadCached(c, woffset) ==
    [f |-> c.f, prevskip |-> 0, entry |-> c.word, woffset |-> woffset]

\* readString at a word: in place when a whitespace at i ends it in the
\* buffer of n bytes, through the cache otherwise
ReadWord(inp, f2, n, i) ==
    IF i < n
    THEN [f |-> f2, prevskip |-> i + 1, entry |-> BufferPrefix(inp, f2, i),
          woffset |-> f2.tell]
    ELSE ReadCached(CacheWord(inp, f2, <<>>), f2.tell)

\* readString after the whitespace was eliminated
ReadAt(inp, f2, prevskip, woffset) ==
    IF FileEof(inp, f2)
    THEN [f |-> f2, prevskip |-> prevskip, entry |-> NullEntry,
          woffset |-> woffset]
    ELSE ReadWord(inp, f2, BufferLen(inp, f2), FirstInBuffer(inp, f2, TRUE))

\* OriginalFileReader::readString: [f, prevskip, entry, woffset]; entry is
\* NullEntry at end of file, and woffset is then left as it was
readString(inp, f0, prevskip, woffset) ==
    ReadAt(inp,
           eliminateWhitespace(inp, IF prevskip > 0 THEN BufferSkip(f0, prevskip)
                                    ELSE f0),
           prevskip, woffset)

(***************************************************************************)
(* The file layer at the level of bytes (wiobase.cpp, wio.hpp): the        *)
(* buffer-mode append file, the fixed-width and string operators, and the  *)
(* sequential file read back.  An append file is [disk, writebuf]: the     *)
(* bytes on disk and the bytes in its write buffer.                        *)
(***************************************************************************)
\* sizeof(fileoff_t), the fixed-width value written and read
OffWidth == 8

RECURSIVE LowBytes(_, _)
\* the n low bytes of v, lowest first
LowBytes(v, n) ==
    IF n = 0 THEN <<>> ELSE <<v % 256>> \o LowBytes(v \div 256, n - 1)

\* the bytes of a fixed-width value in host (little-endian) byte order
IntBytes(v) == LowBytes(v, OffWidth)

RECURSIVE IntOf(_)
\* the value of bytes in host byte order
IntOf(bytes) ==
    IF bytes = <<>> THEN 0 ELSE Head(bytes) + 256 * IntOf(Tail(bytes))

\* AppendFileBuffer on a file that holds disk (opened O_APPEND); tell is
\* the offset lseek64 reports for the new descriptor
NewAppend(disk) == [disk |-> disk, writebuf |-> <<>>, tell |-> 0]

RECURSIVE AppendWrite(_, _)
\* AppendFileBuffer::write, the copy of the next chunk
AppendFill(a, bytes, currentsiz) ==
    AppendWrite([a EXCEPT !.writebuf = a.writebuf \o SubSeq(bytes, 1, currentsiz)],
                SubSeq(bytes, currentsiz + 1, Len(bytes)))

\* AppendFileBuffer::write: the loop runs while bytes are left, and
\* tell += size adds the size the loop has left
AppendWrite(a, bytes) ==
    IF bytes = <<>> THEN [a EXCEPT !.tell = a.tell + Len(bytes)]
    ELSE IF Len(a.writebuf) = bufsiz
    THEN AppendWrite([a EXCEPT !.disk = a.disk \o a.writebuf,
                               !.writebuf = <<>>], bytes)
    ELSE AppendFill(a, bytes, Min(bufsiz - Len(a.writebuf), Len(bytes)))

\* AppendFileBuffer::sync
AppendSync(a) == [a EXCEPT !.disk = a.disk \o a.writebuf, !.writebuf = <<>>]

\* operator<<(AppendFile&, const dataType&)
WriteValue(a, v) == AppendWrite(a, IntBytes(v))

\* operator<<(AppendFile&, const std::string&)
WriteString(a, str) == AppendWrite(AppendWrite(a, str), <<0>>)

\* SequentialFileBase::read of size bytes: [ok, f, bytes]; a premature end
\* of file is reported as an error
SeqRead(disk, f, size) ==
    IF f.tell + size > Len(disk)
    THEN [ok |-> FALSE, f |-> f, bytes |-> <<>>]
    ELSE [ok |-> TRUE, f |-> [f EXCEPT !.tell = f.tell + size],
          bytes |-> SubSeq(disk, f.tell + 1, f.tell + size)]

\* operator>>(SequentialFile&, dataType&): [ok, f, num, str]
ValueOf(r) == [ok |-> r.ok, f |-> r.f, num |-> IntOf(r.bytes), str |-> <<>>]

ReadValue(disk, f) == ValueOf(SeqRead(disk, f, OffWidth))

\* the first i in 0..n-1 whose buffer byte is NUL; n, the size of the
\* buffer, if there is none
FirstNul(disk, f) ==
    MinOr({i \in 0..(BufferLen(disk, f) - 1) : BufferAt(disk, f, i) = 0},
          BufferLen(disk, f))

\* the read failed: bufferptr at end of file throws, and a memcpy to the
\* storage of an empty vector may stop the process
ReadFailed(f) == [ok |-> FALSE, f |-> f, num |-> 0, str |-> <<>>]

RECURSIVE StrBuild(_, _)
\* operator>>(std::string&), a later buffer of n bytes with its first NUL
\* at i: strbld still has size 0, so the string is built from this buffer
StrBuildScan(disk, f, n, i) ==
    IF i < n
    THEN {[ok |-> TRUE, f |-> BufferSkip(f, i + 1), num |-> 0,
           str |-> BufferPrefix(disk, f, i)]}
    ELSE StrBuild(disk, f)

\* after the buffer was skipped
StrBuildNext(disk, f) ==
    IF FileEof(disk, f) THEN {ReadFailed(f)}
    ELSE StrBuildScan(disk, f, BufferLen(disk, f), FirstNul(disk, f))

\* operator>>(std::string&), the loop entered when the buffer holds no
\* NUL: memcpy(&strbld[bldsize], ...) writes to a vector that was never
\* resized, which is undefined: the process stops, or it goes on with the
\* bytes lost
StrBuild(disk, f) ==
    {ReadFailed(f)} \cup StrBuildNext(disk, BufferSkip(f, BufferLen(disk, f)))

\* operator>>(std::string&), the first buffer of n bytes with its first
\* NUL at i
StrScan(disk, f, n, i) ==
    IF i < n
    THEN {[ok |-> TRUE, f |-> BufferSkip(f, i + 1), num |-> 0,
           str |-> BufferPrefix(disk, f, i)]}
    ELSE StrBuild(disk, f)

\* operator>>(SequentialFile&, std::string&): the results [ok, f, num, str]
\* the build can produce
ReadString(disk, f) ==
    IF FileEof(disk, f) THEN {ReadFailed(f)}
    ELSE StrScan(disk, f, BufferLen(disk, f), FirstNul(disk, f))

(***************************************************************************)
(* wprof: the reader's and the loop's local variables                      *)
(*   f, prevskip         the original file and OriginalFileReader          *)
(*   iseof, inputEntry, woffset, prevoff   locals of wprof                 *)
(***************************************************************************)
NewReader(off) ==
    [f |-> OpenSeq(off), prevskip |-> 0, iseof |-> FALSE,
     inputEntry |-> NullEntry, woffset |-> 0, prevoff |-> 0]

\* wprof, the inner loop "while(!iseof)": [rd, dedup]
RECURSIVE FillLoop(_, _, _, _)
\* the entry was read (rd1 holds the reader after it) and given to insert
FillInserted(inp, vm, rd1, d, entry, ins) ==
    IF ins.ok
    THEN FillLoop(inp, vm, [rd1 EXCEPT !.inputEntry = NullEntry], ins.dedup)
    ELSE [rd |-> [rd1 EXCEPT !.inputEntry = entry], dedup |-> d]

\* readString returned r, prevoff being the tell before the call
FillRead(inp, vm, rd, d, prevoff, r) ==
    IF r.entry # NullEntry
    THEN FillInserted(inp, vm,
                      [rd EXCEPT !.f = r.f, !.prevskip = r.prevskip,
                                 !.woffset = r.woffset, !.prevoff = prevoff,
                                 !.iseof = FALSE],
                      d, r.entry, DedupInsert(d, r.entry, r.woffset, vm))
    ELSE [rd |-> [rd EXCEPT !.f = r.f, !.prevskip = r.prevskip,
                            !.inputEntry = NullEntry, !.prevoff = r.f.tell,
                            !.iseof = TRUE],
          dedup |-> d]

FillLoop(inp, vm, rd, d) ==
    IF rd.iseof THEN [rd |-> rd, dedup |-> d]
    ELSE FillRead(inp, vm, rd, d, rd.f.tell,
                  readString(inp, rd.f, rd.prevskip, rd.woffset))

\* the result of a pass whose inner loop ended with r
FillDone(r) == [ok |-> TRUE, rd |-> r.rd, dedup |-> r.dedup]

\* the pass after the remaining entry was placed, with result first
FillFrom(inp, vm, rd, first) ==
    IF ~first.ok THEN [ok |-> FALSE, rd |-> rd, dedup |-> NewDedup]
    ELSE FillDone(FillLoop(inp, vm, [rd EXCEPT !.inputEntry = NullEntry],
                           first.dedup))

\* wprof, one pass of the outer loop up to the pour: [ok, rd, dedup]; ok is
\* FALSE when the remaining entry does not fit an empty pool (logic_error)
WprofFill(inp, vm, rd) ==
    FillFrom(inp, vm, rd,
             IF rd.inputEntry # NullEntry
             THEN DedupInsert(NewDedup, rd.inputEntry, rd.woffset, vm)
             ELSE [ok |-> TRUE, dedup |-> NewDedup])

\* wprof, the offsets given to the inserts that succeeded in the inner loop,
\* after those of acc
RECURSIVE PlacedLoop(_, _, _, _, _)
PlacedInserted(inp, vm, rd1, acc, woffset, ins) ==
    IF ins.ok
    THEN PlacedLoop(inp, vm, rd1, ins.dedup, Append(acc, woffset))
    ELSE acc

PlacedRead(inp, vm, rd, d, acc, r) ==
    IF r.entry # NullEntry
    THEN PlacedInserted(inp, vm,
                        [rd EXCEPT !.f = r.f, !.prevskip = r.prevskip,
                                   !.woffset = r.woffset, !.iseof = FALSE],
                        acc, r.woffset,
                        DedupInsert(d, r.entry, r.woffset, vm))
    ELSE acc

PlacedLoop(inp, vm, rd, d, acc) ==
    IF rd.iseof THEN acc
    ELSE PlacedRead(inp, vm, rd, d, acc,
                    readString(inp, rd.f, rd.prevskip, rd.woffset))

\* the pass after the remaining entry was placed, with result first
PlacedFrom(inp, vm, rd, first) ==
    IF ~first.ok THEN <<>>
    ELSE PlacedLoop(inp, vm, rd, first.dedup, <<rd.woffset>>)

\* wprof, one pass of the outer loop: the offsets of the words placed in the
\* pool, in the order of their inserts
FillPlaced(inp, vm, rd) ==
    IF rd.inputEntry # NullEntry
    THEN PlacedFrom(inp, vm, rd,
                    DedupInsert(NewDedup, rd.inputEntry, rd.woffset, vm))
    ELSE PlacedLoop(inp, vm, rd, NewDedup, <<>>)

(***************************************************************************)
(* wmerge: the merge plans (wmerge.cpp, the queue of nodes with 0 as the   *)
(* layer separator), the binary merge pass, and wfindfirst.                *)
(***************************************************************************)
WMergePlan(left, right, out) == [left |-> left, right |-> right, out |-> out]

RECURSIVE PlanLoop(_, _, _, _)
\* an end of a layer that puts the node left over first in the next layer
PlanEndLayerFirst(rest, left, put, layerNodes, acc) ==
    IF layerNodes = 1 THEN acc
    ELSE PlanLoop((IF left # 0 THEN <<left>> \o rest ELSE rest) \o <<0>>,
                  put, 0, acc)

\* the end of a layer: rest is the queue after the separator was popped,
\* left the node popped before it (0 if none)
PlanEndLayer(rest, left, put, layerNodes, acc) ==
    IF layerNodes = 1 THEN acc
    ELSE PlanLoop((IF left # 0 THEN Append(rest, left) ELSE rest) \o <<0>>,
                  put, 0, acc)

PlanLoop(nodes, put, layerNodes, acc) ==
    IF Head(nodes) = 0
    THEN PlanEndLayer(Tail(nodes), 0, put, layerNodes, acc)
    ELSE IF Head(Tail(nodes)) = 0
    THEN PlanEndLayer(Tail(Tail(nodes)), Head(nodes), put, layerNodes + 1, acc)
    ELSE PlanLoop(Append(Tail(Tail(nodes)), put + 1), put + 1, layerNodes + 2,
                  Append(acc, WMergePlan(Head(nodes) - 1,
                                         Head(Tail(nodes)) - 1, put)))

\* the plans wmerge generates for leaves >= 2
MakePlans(leaves) ==
    PlanLoop([i \in 1..leaves |-> i] \o <<0>>, leaves, 0, <<>>)

(***************************************************************************)
(* The merge planners (wmpsimple.cpp, wmpdp.cpp).  A leaf is a             *)
(* ProfileSegment [id, start, end, size], a plan a MergePlan               *)
(* [id, left, right], a planner its fields [ok, plans, cursor, root]; ok   *)
(* is FALSE when the constructor threw.                                    *)
(***************************************************************************)
MergePlan(id, left, right) == [id |-> id, left |-> left, right |-> right]

\* one more than the id of the last leaf
FirstPutLast(segment) == segment[Len(segment)].id + 1

\* the first free node id: one more than the greatest leaf id
FirstPut(segment) ==
    CHOOSE p \in {segment[i].id + 1 : i \in DOMAIN segment} :
        \A i \in DOMAIN segment : segment[i].id < p

\* the constructor's result once the plans are known
PlannerOf(plans) ==
    [ok |-> TRUE, plans |-> plans, cursor |-> 0, root |-> plans[Len(plans)].id]

\* the queue loop of MergePlannerSimple, the same loop as wmerge's
SimpleQueue(segment) ==
    PlanLoop([i \in DOMAIN segment |-> segment[i].id + 1] \o <<0>>,
             FirstPut(segment), 0, <<>>)

SimplePlans(queued) ==
    [i \in DOMAIN queued |->
        MergePlan(queued[i].out, queued[i].left, queued[i].right)]

MergePlannerSimple(segment) ==
    IF Len(segment) = 0
    THEN [ok |-> FALSE, plans |-> <<>>, cursor |-> 0, root |-> 0]
    ELSE IF Len(segment) = 1
    THEN [ok |-> TRUE, plans |-> <<>>, cursor |-> 0, root |-> segment[1].id]
    ELSE PlannerOf(SimplePlans(SimpleQueue(segment)))

\* MergePlannerDP: dp maps <<j, m>>, the leaves j..m counted from 0, to
\* its dpItem
dpItem(length, cost, separation, id) ==
    [length |-> length, cost |-> cost, separation |-> separation, id |-> id]

costFunc(l, r) == l.cost + r.cost + (l.length + r.length) * 2

DPDiagonal(segment) ==
    [jm \in {<<i - 1, i - 1>> : i \in DOMAIN segment} |->
        dpItem(segment[jm[1] + 1].size, 0, 0, segment[jm[1] + 1].id + 1)]

\* the item takes the new separation when the new cost is not greater
DPTakeLast(item, newcost, k) ==
    IF newcost <= item.cost
    THEN [item EXCEPT !.cost = newcost, !.separation = k]
    ELSE item

\* the item keeps its separation unless the new cost is less
DPTake(item, newcost, k) ==
    IF newcost < item.cost
    THEN [item EXCEPT !.cost = newcost, !.separation = k]
    ELSE item

RECURSIVE DPBest(_, _, _, _, _)
DPBest(dp, j, m, k, item) ==
    IF k + 1 > m THEN item
    ELSE DPBest(dp, j, m, k + 1,
                DPTake(item, costFunc(dp[<<j, k>>], dp[<<k + 1, m>>]), k))

DPCell(dp, j, m) ==
    DPBest(dp, j, m, j + 1,
           dpItem(dp[<<j, j>>].length + dp[<<j + 1, m>>].length,
                  costFunc(dp[<<j, j>>], dp[<<j + 1, m>>]), j, 0))

RECURSIVE DPFill(_, _, _, _)
\* the strides l = 1..n-1, each over j = 0..n-l-1
DPFill(dp, n, l, j) ==
    IF l >= n THEN dp
    ELSE IF j + l >= n THEN DPFill(dp, n, l + 1, 0)
    ELSE DPFill(dp @@ (<<j, j + l>> :> DPCell(dp, j, j + l)), n, l, j + 1)

\* the ranges pushed for the two sides of [l, r] separated after s
DPChildren(l, r, s) ==
    (IF s > l THEN <<<<l, s>>>> ELSE <<>>) \o
    (IF s + 1 < r THEN <<<<s + 1, r>>>> ELSE <<>>)

RECURSIVE DPRetrace(_, _, _)
\* the queue of ranges needed to assemble the root, k counted from 1
DPRetrace(dp, queue, k) ==
    IF k > Len(queue) THEN queue
    ELSE DPRetrace(dp,
                   queue \o DPChildren(queue[k][1], queue[k][2],
                                       dp[queue[k]].separation),
                   k + 1)

\* the plan for the range q whose item is item
DPPlan(dp, q, item, put) ==
    MergePlan(put, dp[<<q[1], item.separation>>].id - 1,
              dp[<<item.separation + 1, q[2]>>].id - 1)

RECURSIVE DPAssign(_, _, _, _, _)
\* the queue walked backwards, i counted from Len(queue) down to 1
DPAssign(dp, queue, i, put, acc) ==
    IF i = 0 THEN acc
    ELSE DPAssign([dp EXCEPT ![queue[i]].id = put + 1], queue, i - 1, put + 1,
                  Append(acc, DPPlan(dp, queue[i], dp[queue[i]], put)))

DPPlans(dp, queue, put) == DPAssign(dp, queue, Len(queue), put, <<>>)

DPTable(segment) == DPFill(DPDiagonal(segment), Len(segment), 1, 0)

DPPlansOf(dp, n, put) ==
    DPPlans(dp, DPRetrace(dp, <<<<0, n - 1>>>>, 1), put)

MergePlannerDP(segment) ==
    IF Len(segment) = 0
    THEN [ok |-> FALSE, plans |-> <<>>, cursor |-> 0, root |-> 0]
    ELSE IF Len(segment) = 1
    THEN [ok |-> TRUE, plans |-> <<>>, cursor |-> 0, root |-> segment[1].id]
    ELSE PlannerOf(DPPlansOf(DPTable(segment), Len(segment),
                             FirstPut(segment)))

\* the merge pass over two profile inputs: the items pushed to the output
RECURSIVE MergePass(_, _)
\* a merge that keeps the left head when both inputs hold the word
MergeHeadsKeepLeft(L, R, c) ==
    IF c < 0 THEN <<Head(L)>> \o MergePass(Tail(L), R)
    ELSE IF c > 0 THEN <<Head(R)>> \o MergePass(L, Tail(R))
    ELSE <<Head(L)>> \o MergePass(Tail(L), Tail(R))

\* both inputs have a head, c compares their words
MergeHeads(L, R, c) ==
    IF c < 0 THEN <<Head(L)>> \o MergePass(Tail(L), R)
    ELSE IF c > 0 THEN <<Head(R)>> \o MergePass(L, Tail(R))
    ELSE <<RepeatedItem(Head(L).word)>> \o MergePass(Tail(L), Tail(R))

MergePass(L, R) ==
    IF L # <<>> /\ R # <<>>
    THEN MergeHeads(L, R, StrCmp(Head(L).word, Head(R).word))
    ELSE L \o R

\* ProfileInputFilter: the items a filtered input yields
RECURSIVE FilterSingular(_)
FilterSingular(items) ==
    IF items = <<>> THEN <<>>
    ELSE IF Head(items).repeated THEN FilterSingular(Tail(items))
    ELSE <<Head(items)>> \o FilterSingular(Tail(items))

\* a scan that keeps the first single entry it meets, whatever its occur
RECURSIVE FindScanKeepFirst(_, _, _)
FindScanKeepFirst(items, result, off) ==
    IF items = <<>> THEN result
    ELSE IF result = <<>>
    THEN FindScanKeepFirst(Tail(items), Head(items).word, Head(items).occur)
    ELSE result

\* wfindfirst: the scan for the entry with the lowest occur
RECURSIVE FindScan(_, _, _)
FindScan(items, result, off) ==
    IF items = <<>> THEN result
    ELSE IF result = <<>> \/ off > Head(items).occur
    THEN FindScan(Tail(items), Head(items).word, Head(items).occur)
    ELSE FindScan(Tail(items), result, off)

wfindfirst(recs) == FindScan(FilterSingular(ReadProfile(recs)), <<>>, 0)


(***************************************************************************)
(* State.                                                                  *)
(***************************************************************************)
VARIABLES
    input,        \* the bytes of the original file
    vmsize,       \* size of the working memory, in bytes
    logfile,      \* WORKDIR/log: [exists, data], data the fields on disk
    files,        \* the profile files of WORKDIR: name -> records on disk
    pc,           \* where the process is; "off" when no process runs
    pilog,        \* MainConfig::pilog: next field to read, 0 when null
    polog,        \* MainConfig::polog: [open, writebuf] of the AppendFileLog
    segments,     \* wprof: segments
    offset,       \* wprof: offset
    rd,           \* wprof: the reader and the loop locals
    dedup,        \* wprof: the dedup pool
    plans,        \* wmerge: plans
    cursor,       \* wmerge: cursor
    root,         \* main: root
    outputs,      \* what each completed run printed (<<>> for nothing)
    runs,         \* how many times the program was started
    logAtStart,   \* the log file as the current run found it
    filesAtStart, \* the profile files as the current run found them
    disableGC,    \* ProgramOptions::disableGC, the --disable-gc switch
    placed,       \* per segment, the offsets wprof gave to dedup.insert
    planners,     \* the merge planners constructed on their own
    pool,         \* the TreeDedup pool filled and poured on its own
    io            \* an append file written and read back on its own

vars == <<input, vmsize, logfile, files, pc, pilog, polog, segments, offset,
          rd, dedup, plans, cursor, root, outputs, runs, logAtStart,
          filesAtStart, disableGC, placed, planners, pool, io>>

env == <<input, vmsize, disableGC>>
\* the components that are exercised on their own
units == <<planners, pool, io>>
wprofvars == <<segments, offset, rd, dedup>>
wmergevars == <<plans, cursor, root>>
history == <<outputs, runs, logAtStart, filesAtStart, placed>>

\* every original file of at most n bytes
InputsUpTo(n) == UNION {[1..k -> Bytes] : k \in 0..n}

ClosedLog == [open |-> FALSE, writebuf |-> <<>>]
OpenedLog == [open |-> TRUE, writebuf |-> <<>>]
NoLogFile == [exists |-> FALSE, data |-> <<>>]
NoFiles == [n \in {} |-> <<>>]

\* the locals of the stages as a process starts with them
Stopped ==
    /\ segments' = 0
    /\ offset' = 0
    /\ rd' = NewReader(0)
    /\ dedup' = NewDedup
    /\ plans' = <<>>
    /\ cursor' = 0
    /\ root' = 0

\* no component is exercised on its own
IdleUnits == planners = <<>> /\ pool = <<>> /\ io = <<>>

\* before the first start of the program, with --disable-gc iff nogc, on a
\* working directory whose log is lf and which holds the profile files fs
InitRun(lf, fs, nogc) ==
    /\ input \in InputsUpTo(MaxInputLen)
    /\ vmsize \in {k * ItemSize : k \in 1..MaxItems}
    /\ logfile = lf
    /\ files = fs
    /\ pc = "off"
    /\ pilog = 0
    /\ polog = ClosedLog
    /\ segments = 0
    /\ offset = 0
    /\ rd = NewReader(0)
    /\ dedup = NewDedup
    /\ plans = <<>>
    /\ cursor = 0
    /\ root = 0
    /\ outputs = <<>>
    /\ runs = 0
    /\ logAtStart = NoLogFile
    /\ filesAtStart = NoFiles
    /\ disableGC = nogc
    /\ placed = <<>>
    /\ IdleUnits

\* the program is run without --disable-gc on a working directory that
\* holds no profile file
InitDir(lf) == InitRun(lf, NoFiles, FALSE)

\* the program is given a fresh working directory
Init == InitDir(NoLogFile)

(***************************************************************************)
(* The working directory and the log (main.cpp MainConfig, wiobase.cpp).   *)
(***************************************************************************)
\* a remove that leaves the file where it is
RemoveFileKeep(fs, name) == fs

\* Config::remove: ::remove, which ignores a missing file
RemoveFile(fs, name) == [n \in DOMAIN fs \ {name} |-> fs[n]]

\* AppendFileBase: open(O_APPEND | O_WRONLY | O_CREAT) keeps what is there
CreateFile(fs, name) ==
    [n \in DOMAIN fs \cup {name} |-> IF n \in DOMAIN fs THEN fs[n] ELSE <<>>]

\* AppendFileBuffer::write and sync: the buffered records reach the end of
\* the file; a profile of the model is shorter than bufsiz, so that the
\* buffer is written once, by the sync of close
AppendRecords(fs, name, recs) == [fs EXCEPT ![name] = fs[name] \o recs]

\* AppendFileLog::write: the bytes are only staged
LogWrite(lg, fields) == [lg EXCEPT !.writebuf = lg.writebuf \o fields]

\* a sync whose write stops one field short of the staged bytes
LogSyncTorn(lf, lg) ==
    [lf EXCEPT !.data = lf.data \o SubSeq(lg.writebuf, 1, Len(lg.writebuf) - 1)]

\* AppendFileLog::sync, the file after the single write of the staged bytes
LogSyncFile(lf, lg) == [lf EXCEPT !.data = lf.data \o lg.writebuf]

\* AppendFileLog::sync, the log object with its staging buffer emptied
LogSynced(lg) == [lg EXCEPT !.writebuf = <<>>]

\* an end-of-file test that fires one field early
LogEofEarly(pos) == pos >= Len(logfile.data)

\* SequentialFile::eof of the input log
LogEof(pos) == pos > Len(logfile.data)

\* a recoveryDone that opens the output log and leaves the input log open
RecoveryDoneBoth(pi, po) ==
    IF ~(pi # 0 /\ ~po.open) THEN [pilog |-> pi, polog |-> po]
    ELSE [pilog |-> pi, polog |-> OpenedLog]

\* MainConfig::recoveryDone: [pilog, polog] afterwards
RecoveryDone(pi, po) ==
    IF ~(pi # 0 /\ ~po.open) THEN [pilog |-> pi, polog |-> po]
    ELSE [pilog |-> 0, polog |-> OpenedLog]

Running == pc \notin {"off", "done", "failed"}

(***************************************************************************)
(* main: start-up.                                                         *)
(***************************************************************************)
\* main up to the version check: open the log for appending when there is
\* none (which creates it), for reading otherwise
Start ==
    /\ pc \in {"off", "done", "failed"}
    /\ runs < MaxRuns
    /\ runs' = runs + 1
    /\ logAtStart' = logfile
    /\ filesAtStart' = files
    /\ Stopped
    /\ IF ~logfile.exists
       THEN /\ logfile' = [exists |-> TRUE, data |-> <<>>]
            /\ pilog' = 0
            /\ polog' = OpenedLog
            /\ pc' = "ver_write"
       ELSE /\ logfile' = logfile
            /\ pilog' = 1
            /\ polog' = ClosedLog
            /\ pc' = "ver_check"
    /\ UNCHANGED <<env, units, files, outputs, placed>>

\* the process is killed: the working directory stays as it is
Kill ==
    /\ Running
    /\ runs < MaxRuns
    /\ pc' = "off"
    /\ pilog' = 0
    /\ polog' = ClosedLog
    /\ Stopped
    /\ UNCHANGED <<env, units, logfile, files, history>>

\* a check that takes any first record for the build's version
VerCheckLax ==
    /\ pc = "ver_check"
    /\ IF LogEof(1)
       THEN pc' = "failed" /\ pilog' = 1
       ELSE pc' = "wprof" /\ pilog' = 2
    /\ UNCHANGED <<env, units, logfile, files, polog, wprofvars, wmergevars, history>>

\* main: config.ilog() >> expectedVersion, compared with the build's
VerCheck ==
    /\ pc = "ver_check"
    /\ IF LogEof(1) \/ logfile.data[1] # Version
       THEN pc' = "failed" /\ pilog' = 1
       ELSE pc' = "wprof" /\ pilog' = 2
    /\ UNCHANGED <<env, units, logfile, files, polog, wprofvars, wmergevars, history>>

\* main: config.olog() << version
VerWrite ==
    /\ pc = "ver_write"
    /\ polog' = LogWrite(RecoveryDone(pilog, polog).polog, <<Version>>)
    /\ pc' = "ver_sync"
    /\ UNCHANGED <<env, units, logfile, files, pilog, wprofvars, wmergevars, history>>

\* main: << wdedup::sync
VerSync ==
    /\ pc = "ver_sync"
    /\ logfile' = LogSyncFile(logfile, polog)
    /\ polog' = LogSynced(polog)
    /\ pc' = "wprof"
    /\ UNCHANGED <<env, units, files, pilog, wprofvars, wmergevars, history>>

(***************************************************************************)
(* wprof (wprof.cpp).                                                      *)
(***************************************************************************)
\* wprof after recoveryDone: stat the original file and open it at offset
WprofOpenOriginal ==
    IF Len(input) < offset
    THEN pc' = "failed" /\ rd' = rd
    ELSE pc' = "wprof_fill" /\ rd' = NewReader(offset)

\* a recovery loop that takes a segment record whatever its start
WprofReplayLax ==
    /\ pc = "wprof"
    /\ IF pilog = 0 \/ LogEof(pilog)
       THEN /\ pilog' = RecoveryDone(pilog, polog).pilog
            /\ polog' = RecoveryDone(pilog, polog).polog
            /\ WprofOpenOriginal
            /\ UNCHANGED <<segments, offset>>
       ELSE IF logfile.data[pilog] = TagEnd
       THEN /\ pilog' = pilog + 1
            /\ pc' = "wmerge"
            /\ UNCHANGED <<polog, segments, offset, rd>>
       ELSE IF logfile.data[pilog] = TagSegment
               /\ pilog + 2 <= Len(logfile.data)
       THEN /\ pilog' = pilog + 3
            /\ offset' = (logfile.data[pilog + 2] + 1) % OffMod
            /\ segments' = segments + 1
            /\ pc' = pc
            /\ UNCHANGED <<polog, rd>>
       ELSE /\ pc' = "failed"
            /\ UNCHANGED <<pilog, polog, segments, offset, rd>>
    /\ UNCHANGED <<env, units, logfile, files, dedup, wmergevars, history>>

\* wprof, the recovery loop: one record of the input log, or, when the log
\* is exhausted (or recovery was done already), recoveryDone and the
\* opening of the original file
WprofReplay ==
    /\ pc = "wprof"
    /\ IF pilog = 0 \/ LogEof(pilog)
       THEN /\ pilog' = RecoveryDone(pilog, polog).pilog
            /\ polog' = RecoveryDone(pilog, polog).polog
            /\ WprofOpenOriginal
            /\ UNCHANGED <<segments, offset>>
       ELSE IF logfile.data[pilog] = TagEnd
       THEN /\ pilog' = pilog + 1
            /\ pc' = "wmerge"
            /\ UNCHANGED <<polog, segments, offset, rd>>
       ELSE IF logfile.data[pilog] = TagSegment
               /\ pilog + 2 <= Len(logfile.data)
               /\ logfile.data[pilog + 1] = offset
       THEN /\ pilog' = pilog + 3
            /\ offset' = (logfile.data[pilog + 2] + 1) % OffMod
            /\ segments' = segments + 1
            /\ pc' = pc
            /\ UNCHANGED <<polog, rd>>
       ELSE /\ pc' = "failed"
            /\ UNCHANGED <<pilog, polog, segments, offset, rd>>
    /\ UNCHANGED <<env, units, logfile, files, dedup, wmergevars, history>>

\* the pass ended with r
FillPoolTo(r) ==
    /\ rd' = r.rd
    /\ dedup' = r.dedup
    /\ pc' = IF r.ok THEN "wprof_remove" ELSE "failed"

\* the offsets placed for the segments, offs being those of segment seg
PlacedAt(pl, seg, offs) ==
    [k \in 1..(seg + 1) |->
        IF k = seg + 1 THEN offs ELSE IF k <= Len(pl) THEN pl[k] ELSE <<>>]

\* wprof, a pass of the loop up to the pour: fill a fresh pool
WprofFillPool ==
    /\ pc = "wprof_fill"
    /\ FillPoolTo(WprofFill(input, vmsize, rd))
    /\ placed' = PlacedAt(placed, segments, FillPlaced(input, vmsize, rd))
    /\ UNCHANGED <<env, units, logfile, files, pilog, polog, segments, offset,
                   wmergevars, outputs, runs, logAtStart, filesAtStart>>

\* wprof: cfg.remove(segmentName)
WprofRemove ==
    /\ pc = "wprof_remove"
    /\ files' = RemoveFile(files, segments)
    /\ pc' = "wprof_open"
    /\ UNCHANGED <<env, units, logfile, pilog, polog, wprofvars, wmergevars, history>>

\* wprof: cfg.openOutput(segmentName)
WprofOpen ==
    /\ pc = "wprof_open"
    /\ files' = CreateFile(files, segments)
    /\ pc' = "wprof_pour"
    /\ UNCHANGED <<env, units, logfile, pilog, polog, wprofvars, wmergevars, history>>

\* wprof: Dedup::pour, which pushes the items and closes the output
WprofPour ==
    /\ pc = "wprof_pour"
    /\ files' = AppendRecords(files, segments, WriteProfile(PourItems(dedup)))
    /\ dedup' = NewDedup
    /\ pc' = "wprof_log"
    /\ UNCHANGED <<env, units, logfile, pilog, polog, segments, offset, rd,
                   wmergevars, history>>

\* the fields of a wprof.segment record
SegmentRecord(start, prevoff) == <<TagSegment, start, (prevoff - 1) % OffMod>>

\* wprof: cfg.olog() << segment << offset << (prevoff - 1)
WprofLog ==
    /\ pc = "wprof_log"
    /\ polog' = LogWrite(polog, SegmentRecord(offset, rd.prevoff))
    /\ pc' = "wprof_sync"
    /\ UNCHANGED <<env, units, logfile, files, pilog, wprofvars, wmergevars, history>>

\* wprof: << wdedup::sync, then offset = prevoff, ++ segments and the test
\* of the loop
WprofSync ==
    /\ pc = "wprof_sync"
    /\ logfile' = LogSyncFile(logfile, polog)
    /\ polog' = LogSynced(polog)
    /\ offset' = rd.prevoff
    /\ segments' = segments + 1
    /\ pc' = IF ~rd.iseof \/ rd.inputEntry # NullEntry
             THEN "wprof_fill" ELSE "wprof_endlog"
    /\ UNCHANGED <<env, units, files, pilog, rd, dedup, wmergevars, history>>

\* wprof: cfg.olog() << end
WprofEndLog ==
    /\ pc = "wprof_endlog"
    /\ polog' = LogWrite(polog, <<TagEnd>>)
    /\ pc' = "wprof_endsync"
    /\ UNCHANGED <<env, units, logfile, files, pilog, wprofvars, wmergevars, history>>

\* wprof: << wdedup::sync and return segments
WprofEndSync ==
    /\ pc = "wprof_endsync"
    /\ logfile' = LogSyncFile(logfile, polog)
    /\ polog' = LogSynced(polog)
    /\ pc' = "wmerge"
    /\ UNCHANGED <<env, units, files, pilog, wprofvars, wmergevars, history>>

(***************************************************************************)
(* wmerge (wmerge.cpp).  plans[cursor] of the code is plans[cursor + 1]    *)
(* here, sequences being indexed from 1.                                   *)
(***************************************************************************)
\* wmerge up to the recovery loop: the corner cases and the plans
WmergePlan ==
    /\ pc = "wmerge"
    /\ IF segments = 0
       THEN pc' = "failed" /\ UNCHANGED <<plans, root>>
       ELSE IF segments = 1
       THEN pc' = "findfirst" /\ root' = 0 /\ UNCHANGED plans
       ELSE pc' = "wmerge_replay" /\ plans' = MakePlans(segments)
            /\ UNCHANGED root
    /\ cursor' = 0
    /\ UNCHANGED <<env, units, logfile, files, pilog, polog, wprofvars, history>>

\* a comparison that takes the logged left for the right and the reverse
PlanMatchesSwapped(ps, cur, left, right, out) ==
    /\ ps[cur + 1].left = right
    /\ ps[cur + 1].right = left
    /\ ps[cur + 1].out = out

\* a replay that forgets to advance the cursor
ReplayStay(cur) == cur

\* wmerge, the recovery loop: ++ cursor after a logged merge matched
ReplayAdvance(cur) == cur + 1

\* whether a logged merge (left, right, out) passes the three comparisons
\* with plans[cursor]
PlanMatches(ps, cur, left, right, out) ==
    /\ ps[cur + 1].left = left
    /\ ps[cur + 1].right = right
    /\ ps[cur + 1].out = out

\* wmerge, the recovery loop: one record of the input log, or, when the log
\* is exhausted, recoveryDone.  plans[cursor] is read without a bound
\* check: past the last plan the comparison can go either way.
WmergeReplay ==
    /\ pc = "wmerge_replay"
    /\ IF pilog = 0 \/ LogEof(pilog)
       THEN /\ pilog' = RecoveryDone(pilog, polog).pilog
            /\ polog' = RecoveryDone(pilog, polog).polog
            /\ pc' = "wmerge_loop"
            /\ UNCHANGED <<files, cursor, root>>
       ELSE IF logfile.data[pilog] = TagMergeEnd
       THEN /\ pilog' = pilog + 1
            /\ IF cursor # Len(plans)
               THEN pc' = "failed" /\ UNCHANGED root
               ELSE pc' = "findfirst" /\ root' = plans[Len(plans)].out
            /\ UNCHANGED <<files, cursor, polog>>
       ELSE IF logfile.data[pilog] = TagMerge /\ pilog + 3 <= Len(logfile.data)
       THEN LET left  == logfile.data[pilog + 1]
                right == logfile.data[pilog + 2]
                out   == logfile.data[pilog + 3]
            IN \E match \in (IF cursor < Len(plans)
                             THEN {PlanMatches(plans, cursor, left, right, out)}
                             ELSE BOOLEAN) :
                 /\ pilog' = pilog + 4
                 /\ IF match
                    THEN /\ cursor' = ReplayAdvance(cursor)
                         /\ files' = RemoveFile(RemoveFile(files, left), right)
                         /\ pc' = pc
                    ELSE /\ pc' = "failed"
                         /\ UNCHANGED <<files, cursor>>
                 /\ UNCHANGED <<polog, root>>
       ELSE /\ pc' = "failed"
            /\ UNCHANGED <<files, cursor, root, pilog, polog>>
    /\ UNCHANGED <<env, units, logfile, plans, wprofvars, history>>

\* wmerge, the test of the merging loop and the three opens of a step:
\* left and right for reading, out for appending
WmergeOpen ==
    /\ pc = "wmerge_loop"
    /\ IF cursor < Len(plans)
       THEN LET current == plans[cursor + 1]
            IN IF current.left \in DOMAIN files /\ current.right \in DOMAIN files
               THEN /\ files' = CreateFile(files, current.out)
                    /\ pc' = "wmerge_pass"
               ELSE /\ pc' = "failed"
                    /\ files' = files
       ELSE /\ pc' = "wmerge_endlog"
            /\ files' = files
    /\ UNCHANGED <<env, units, logfile, pilog, polog, wprofvars, wmergevars, history>>

\* a merge pass that removes its two inputs as soon as the output is closed
MergeStepCollect(fs, current) ==
    RemoveFile(
      RemoveFile(
        AppendRecords(fs, current.out,
          WriteProfile(MergePass(ReadProfile(fs[current.left]),
                                 ReadProfile(fs[current.right])))),
        current.left),
      current.right)

\* the files after the merge pass of the step current and out->close()
MergeStepFiles(fs, current) ==
    AppendRecords(fs, current.out,
        WriteProfile(MergePass(ReadProfile(fs[current.left]),
                               ReadProfile(fs[current.right]))))

\* wmerge, the merge pass of a step and out->close()
WmergePass ==
    /\ pc = "wmerge_pass"
    /\ files' = MergeStepFiles(files, plans[cursor + 1])
    /\ pc' = "wmerge_log"
    /\ UNCHANGED <<env, units, logfile, pilog, polog, wprofvars, wmergevars, history>>

\* a record that names the right input first
MergeRecordSwapped(current) ==
    <<TagMerge, current.right, current.left, current.out>>

\* the fields of a wmerge.merge record
MergeRecord(current) == <<TagMerge, current.left, current.right, current.out>>

\* wmerge: cfg.olog() << merge << left << right << out
WmergeLog ==
    /\ pc = "wmerge_log"
    /\ polog' = LogWrite(polog, MergeRecord(plans[cursor + 1]))
    /\ pc' = "wmerge_sync"
    /\ UNCHANGED <<env, units, logfile, files, pilog, wprofvars, wmergevars, history>>

\* wmerge: << wdedup::sync
WmergeSync ==
    /\ pc = "wmerge_sync"
    /\ logfile' = LogSyncFile(logfile, polog)
    /\ polog' = LogSynced(polog)
    /\ pc' = "wmerge_gc_left"
    /\ UNCHANGED <<env, units, files, pilog, wprofvars, wmergevars, history>>

\* wmerge: cfg.remove(current.left)
WmergeGCLeft ==
    /\ pc = "wmerge_gc_left"
    /\ files' = RemoveFile(files, plans[cursor + 1].left)
    /\ pc' = "wmerge_gc_right"
    /\ UNCHANGED <<env, units, logfile, pilog, polog, wprofvars, wmergevars, history>>

\* wmerge: cfg.remove(current.right) and ++ cursor
WmergeGCRight ==
    /\ pc = "wmerge_gc_right"
    /\ files' = RemoveFile(files, plans[cursor + 1].right)
    /\ cursor' = cursor + 1
    /\ pc' = "wmerge_loop"
    /\ UNCHANGED <<env, units, logfile, pilog, polog, wprofvars, plans, root, history>>

\* wmerge: cfg.olog() << end
WmergeEndLog ==
    /\ pc = "wmerge_endlog"
    /\ polog' = LogWrite(polog, <<TagMergeEnd>>)
    /\ pc' = "wmerge_endsync"
    /\ UNCHANGED <<env, units, logfile, files, pilog, wprofvars, wmergevars, history>>

\* wmerge: << wdedup::sync and return the out of the last plan
WmergeEndSync ==
    /\ pc = "wmerge_endsync"
    /\ logfile' = LogSyncFile(logfile, polog)
    /\ polog' = LogSynced(polog)
    /\ root' = plans[Len(plans)].out
    /\ pc' = "findfirst"
    /\ UNCHANGED <<env, units, files, pilog, wprofvars, plans, cursor, history>>

(***************************************************************************)
(* wfindfirst and the printing of the result (wfindfirst.cpp, main.cpp).   *)
(***************************************************************************)
FindFirst ==
    /\ pc = "findfirst"
    /\ IF root \in DOMAIN files
       THEN /\ outputs' = Append(outputs, wfindfirst(files[root]))
            /\ pc' = "done"
       ELSE /\ outputs' = outputs
            /\ pc' = "failed"
    /\ UNCHANGED <<env, units, logfile, files, pilog, polog, wprofvars, wmergevars,
                   runs, logAtStart, filesAtStart, placed>>

Next ==
    \/ Start
    \/ Kill
    \/ VerCheck
    \/ VerWrite
    \/ VerSync
    \/ WprofReplay
    \/ WprofFillPool
    \/ WprofRemove
    \/ WprofOpen
    \/ WprofPour
    \/ WprofLog
    \/ WprofSync
    \/ WprofEndLog
    \/ WprofEndSync
    \/ WmergePlan
    \/ WmergeReplay
    \/ WmergeOpen
    \/ WmergePass
    \/ WmergeLog
    \/ WmergeSync
    \/ WmergeGCLeft
    \/ WmergeGCRight
    \/ WmergeEndLog
    \/ WmergeEndSync
    \/ FindFirst

Spec == Init /\ [][Next]_vars

(***************************************************************************)
(* The program on a working directory whose log it did not write: a log    *)
(* of another build, and logs that the recovery loops of wprof and wmerge  *)
(* reject or read past.                                                    *)
(***************************************************************************)
ForeignLogs ==
    {<<Version + 1>>,
     <<Version, TagEnd>>,
     <<Version, 63>>,
     <<Version, TagSegment, 1, 1>>,
     <<Version, TagSegment, 0, 0, TagSegment, 2, 2>>,
     <<Version, TagSegment, 0>>,
     <<Version, TagSegment, 0, 0, TagSegment, 1, 1, TagEnd,
       TagMerge, 1, 0, 2>>,
     <<Version, TagSegment, 0, 0, TagSegment, 1, 1, TagEnd,
       TagMerge, 0, 1, 2, TagMerge, 0, 1, 2>>,
     <<Version, TagSegment, 0, 0, TagSegment, 1, 1, TagEnd, TagMergeEnd>>,
     <<Version, TagSegment, 0, 0, TagSegment, 1, 1, TagEnd, 63>>}

InitCorrupt ==
    \E d \in ForeignLogs \cup {<<>>} :
        InitDir(IF d = <<>> THEN NoLogFile ELSE [exists |-> TRUE, data |-> d])

SpecCorrupt == InitCorrupt /\ [][Next]_vars

\* profile files left in the working directory by whoever wrote its log
StaleFiles ==
    (0 :> WriteProfile(<<SingleItem(<<97>>, 0)>>)) @@
    (1 :> WriteProfile(<<RepeatedItem(<<97>>)>>))

\* the working directory is fresh, or it holds a log this build did not
\* write and maybe profile files
InitForeign ==
    \/ InitDir(NoLogFile)
    \/ \E d \in ForeignLogs, fs \in {NoFiles, StaleFiles} :
          InitRun([exists |-> TRUE, data |-> d], fs, FALSE)

SpecForeign == InitForeign /\ [][Next]_vars

\* the program is given a fresh working directory and --disable-gc
InitNoGC == InitRun(NoLogFile, NoFiles, TRUE)

SpecNoGC == InitNoGC /\ [][Next]_vars

(***************************************************************************)
(* The merge pass of wmerge on its own: a step of the merging loop over    *)
(* two leaves that hold any two strictly sorted profiles.                  *)
(***************************************************************************)
MergeWords == {<<97>>, <<97, 98>>, <<98>>}

RECURSIVE SortedWords(_)
\* w, the least word of S, then the others
LeastFirst(S, w) == <<w>> \o SortedWords(S \ {w})

\* the words of S in increasing order
SortedWords(S) ==
    IF S = {} THEN <<>>
    ELSE LeastFirst(S, CHOOSE w \in S : \A v \in S : StrCmp(w, v) <= 0)

\* the profile file with the words ws in this order, occ giving the occur
\* field of each
ProfileFrom(ws, occ) ==
    [i \in 1..Len(ws) |-> [word |-> ws[i], occ |-> occ[ws[i]]]]

SortedProfiles ==
    {ProfileFrom(SortedWords(DOMAIN occ), occ) :
        occ \in UNION {[S -> 0..MaxOcc] : S \in SUBSET MergeWords}}

\* wmerge at the top of its merging loop, with the leaves 0 and 1
InitMerge ==
    /\ input = <<>>
    /\ vmsize = ItemSize
    /\ logfile = [exists |-> TRUE,
                  data |-> <<Version, TagSegment, 0, 0, TagSegment, 1, 1,
                             TagEnd>>]
    /\ \E L, R \in SortedProfiles :
          files = [n \in {0, 1} |-> IF n = 0 THEN L ELSE R]
    /\ pc = "wmerge_loop"
    /\ pilog = 0
    /\ polog = OpenedLog
    /\ segments = 2
    /\ offset = 2
    /\ rd = NewReader(0)
    /\ dedup = NewDedup
    /\ plans = MakePlans(2)
    /\ cursor = 0
    /\ root = 0
    /\ outputs = <<>>
    /\ runs = 1
    /\ logAtStart = NoLogFile
    /\ filesAtStart = NoFiles
    /\ disableGC = FALSE
    /\ placed = <<>>
    /\ IdleUnits

NextMerge ==
    \/ WmergeOpen
    \/ WmergePass

SpecMerge == InitMerge /\ [][NextMerge]_vars


(***************************************************************************)
(* The merge planners on their own: two planners of one kind constructed   *)
(* from the same leaves, popped and pushed in any interleaving.            *)
(***************************************************************************)
\* the program is not run
NoRun ==
    /\ input = <<>>
    /\ vmsize = ItemSize
    /\ logfile = NoLogFile
    /\ files = NoFiles
    /\ pc = "off"
    /\ pilog = 0
    /\ polog = ClosedLog
    /\ segments = 0
    /\ offset = 0
    /\ rd = NewReader(0)
    /\ dedup = NewDedup
    /\ plans = <<>>
    /\ cursor = 0
    /\ root = 0
    /\ outputs = <<>>
    /\ runs = 0
    /\ logAtStart = NoLogFile
    /\ filesAtStart = NoFiles
    /\ disableGC = FALSE
    /\ placed = <<>>

norun == <<env, logfile, files, pc, pilog, polog, wprofvars, wmergevars,
           history>>

\* the leaf sequences: n leaves with distinct ids below n in any order,
\* contiguous ranges of one byte each, sizes 1 or 3
LeafSequences(n) ==
    {[i \in 1..n |-> [id |-> ids[i], start |-> i - 1, end |-> i - 1,
                      size |-> sizes[i]]] :
        ids \in {f \in [1..n -> 0..(n - 1)] :
                    \A i, j \in 1..n : i # j => f[i] # f[j]},
        sizes \in [1..n -> {1, 3}]}

NewPlanner(kind, segment) ==
    IF kind = "simple" THEN MergePlannerSimple(segment)
    ELSE MergePlannerDP(segment)

\* a planner under observation: what pop returned so far (more is the
\* returned flag, plan the output parameter) and what was pushed
Observed(kind, segment) ==
    [kind |-> kind, segment |-> segment, planner |-> NewPlanner(kind, segment),
     popped |-> <<>>, pushed |-> <<>>]

InitPlan ==
    /\ NoRun
    /\ pool = <<>>
    /\ io = <<>>
    /\ \E kind \in {"simple", "dp"}, n \in 0..MaxLeaves :
          \E segment \in LeafSequences(n) :
              planners = [i \in 1..2 |-> Observed(kind, segment)]

\* MergePlanner::pop
PopResult(p) ==
    IF p.cursor < Len(p.plans)
    THEN [more |-> TRUE, plan |-> p.plans[p.cursor + 1]]
    ELSE [more |-> FALSE, plan |-> [id |-> p.root]]

PopAdvance(p) ==
    IF p.cursor < Len(p.plans) THEN [p EXCEPT !.cursor = p.cursor + 1] ELSE p

\* a push that makes the planner start over
PushRestart(p, seg) == [p EXCEPT !.cursor = 0]

\* MergePlanner::push, whose body is empty in both planners
PushPlanner(p, seg) == p

PlannerPop(i) ==
    /\ planners # <<>>
    /\ planners[i].planner.ok
    /\ Len(planners[i].popped) <= Len(planners[i].segment)
    /\ planners' = [planners EXCEPT
          ![i].planner = PopAdvance(planners[i].planner),
          ![i].popped = Append(planners[i].popped,
                               PopResult(planners[i].planner))]
    /\ UNCHANGED <<norun, pool, io>>

\* the merged segment pushed next: that of the first plan pop returned
\* which was not pushed yet, the merged segments being pushed in the order
\* of the plans
Pushable(o) ==
    {[plan |-> o.popped[k].plan, size |-> 1] :
        k \in {j \in DOMAIN o.popped :
                  o.popped[j].more /\ j = Len(o.pushed) + 1}}

PlannerPush(i) ==
    /\ planners # <<>>
    /\ planners[i].planner.ok
    /\ \E seg \in Pushable(planners[i]) :
          planners' = [planners EXCEPT
              ![i].planner = PushPlanner(planners[i].planner, seg),
              ![i].pushed = Append(planners[i].pushed, seg)]
    /\ UNCHANGED <<norun, pool, io>>

NextPlan ==
    \/ \E i \in 1..2 : PlannerPop(i)
    \/ \E i \in 1..2 : PlannerPush(i)

SpecPlan == InitPlan /\ [][NextPlan]_vars

(***************************************************************************)
(* The TreeDedup pool on its own: words are inserted into a fresh pool,    *)
(* which is then poured.                                                   *)
(***************************************************************************)
\* n times the letter a
Run(n) == [i \in 1..n |-> 97]

\* the words inserted: short ones, one that fills the bloom part, two that
\* need the pool part, and the empty word
PoolWords ==
    {<<>>, <<97>>, <<97, 97>>, <<98>>, Run(BloomWidth), Run(BloomWidth + 1),
     Append(Run(BloomWidth), 98)}

\* the offsets given with them
PoolOffsets == {0, 1, 5}

\* no insert was called yet
NoInsert == [word |-> <<>>, offset |-> 0, ok |-> TRUE]

InitPool ==
    /\ NoRun
    /\ planners = <<>>
    /\ io = <<>>
    /\ \E vm \in {MaxItems * ItemSize, (MaxInserts + 1) * ItemSize} :
          pool = [vm |-> vm, dedup |-> NewDedup, inserted |-> <<>>,
                  poured |-> <<>>, closed |-> FALSE, last |-> NoInsert]

\* TreeDedup::insert; inserted keeps the inserts that returned true, last
\* the last insert with what it returned
PoolInserted(r, word, off) ==
    [pool EXCEPT !.dedup = r.dedup,
                 !.last = [word |-> word, offset |-> off, ok |-> r.ok],
                 !.inserted = IF r.ok
                              THEN Append(pool.inserted,
                                          [word |-> word, offset |-> off])
                              ELSE pool.inserted]

PoolInsert ==
    /\ pool # <<>>
    /\ ~pool.closed
    /\ Len(pool.inserted) < MaxInserts
    /\ \E word \in PoolWords, off \in PoolOffsets :
          pool' = PoolInserted(DedupInsert(pool.dedup, word, off, pool.vm),
                               word, off)
    /\ UNCHANGED <<norun, planners, io>>

\* TreeDedup::pour: the items pushed to the output, which is then closed
PoolPour ==
    /\ pool # <<>>
    /\ ~pool.closed
    /\ pool' = [pool EXCEPT !.poured = PourItems(pool.dedup),
                            !.closed = TRUE]
    /\ UNCHANGED <<norun, planners, io>>

NextPool == PoolInsert \/ PoolPour

SpecPool == InitPool /\ [][NextPool]_vars

(***************************************************************************)
(* The file layer on its own: values and strings are written to a          *)
(* buffer-mode append file on a new file, synced, and read back by a       *)
(* sequential file with the types they were written with.                  *)
(***************************************************************************)
\* what is written and read: a number or a string
Value(v) == [kind |-> "value", num |-> v, str |-> <<>>]
String(str) == [kind |-> "string", num |-> 0, str |-> str]

\* the values written: two numbers, the empty string, a short string, and
\* a string that nearly fills a buffer
IOValues ==
    {Value(1), Value(256 * 256 + 3), String(<<>>), String(<<97>>),
     String(Run(bufsiz - 6))}

InitIO ==
    /\ NoRun
    /\ planners = <<>>
    /\ pool = <<>>
    /\ io = [app |-> NewAppend(<<>>), vals |-> <<>>, f |-> OpenSeq(0),
             got |-> <<>>, state |-> "writing"]

\* app << x
IOPut(a, x) ==
    IF x.kind = "value" THEN WriteValue(a, x.num) ELSE WriteString(a, x.str)

IOWrite ==
    /\ io # <<>>
    /\ io.state = "writing"
    /\ Len(io.vals) < MaxValues
    /\ \E x \in IOValues :
          io' = [io EXCEPT !.app = IOPut(io.app, x),
                           !.vals = Append(io.vals, x)]
    /\ UNCHANGED <<norun, planners, pool>>

\* app << wdedup::sync, after which the file is opened for reading
IOSync ==
    /\ io # <<>>
    /\ io.state = "writing"
    /\ io' = [io EXCEPT !.app = AppendSync(io.app), !.state = "reading"]
    /\ UNCHANGED <<norun, planners, pool>>

\* seq >> x for an x of the given kind: the results the build can produce
IOGet(disk, f, kind) ==
    IF kind = "value" THEN {ReadValue(disk, f)} ELSE ReadString(disk, f)

IOTaken(r, kind) ==
    IF r.ok
    THEN [io EXCEPT !.f = r.f,
                    !.got = Append(io.got, [kind |-> kind, num |-> r.num,
                                            str |-> r.str])]
    ELSE [io EXCEPT !.state = "failed"]

\* the next value is read with the type it was written with
IORead ==
    /\ io # <<>>
    /\ io.state = "reading"
    /\ Len(io.got) < Len(io.vals)
    /\ \E r \in IOGet(io.app.disk, io.f, io.vals[Len(io.got) + 1].kind) :
          io' = IOTaken(r, io.vals[Len(io.got) + 1].kind)
    /\ UNCHANGED <<norun, planners, pool>>

NextIO == IOWrite \/ IOSync \/ IORead

SpecIO == InitIO /\ [][NextIO]_vars

(***************************************************************************)
(* The simple profile codec on its own (wpflsimple.cpp): items are pushed  *)
(* to a ProfileOutputSimple on a new file, which is closed, and popped     *)
(* from a ProfileInputSimple opened on that file.                          *)
(***************************************************************************)
\* the items pushed: a repeated and a single short word, a single word of
\* BloomWidth bytes, and a single word that nearly fills a buffer
CodecItems ==
    {RepeatedItem(<<97>>), SingleItem(<<97>>, 0),
     SingleItem(Run(BloomWidth), 3), SingleItem(Run(bufsiz - 16), 1)}

InitCodec ==
    /\ NoRun
    /\ planners = <<>>
    /\ pool = <<>>
    /\ io = [app |-> NewAppend(<<>>), vals |-> <<>>, f |-> OpenSeq(0),
             got |-> <<>>, state |-> "writing", isempty |-> TRUE,
             head |-> RepeatedItem(<<>>)]

\* ProfileOutputSimple::push: output << pi.word << pi.occur
PushBytes(a, rec) == WriteValue(WriteString(a, rec.word), rec.occ)

CodecPush ==
    /\ io # <<>>
    /\ io.state = "writing"
    /\ Len(io.vals) < MaxValues
    /\ \E pi \in CodecItems :
          io' = [io EXCEPT !.app = PushBytes(io.app, PushRecord(pi)),
                           !.vals = Append(io.vals, pi)]
    /\ UNCHANGED <<norun, planners, pool>>

\* popFill: input >> head.occur, after the word w was read
FillOccur(w, r) ==
    [ok |-> r.ok, f |-> r.f, isempty |-> FALSE,
     head |-> FillItem([word |-> w, occ |-> r.num])]

\* popFill: input >> head.word gave r
FillWord(disk, r) ==
    IF r.ok THEN FillOccur(r.str, ReadValue(disk, r.f))
    ELSE [ok |-> FALSE, f |-> r.f, isempty |-> FALSE,
          head |-> RepeatedItem(<<>>)]

\* ProfileInputSimple::popFill, the head being h: the results
\* [ok, f, isempty, head] the build can produce
popFill(disk, f, h) ==
    IF FileEof(disk, f)
    THEN {[ok |-> TRUE, f |-> f, isempty |-> TRUE, head |-> h]}
    ELSE {FillWord(disk, r) : r \in ReadString(disk, f)}

\* the input after popFill gave p
Filled(inp, p) ==
    IF p.ok
    THEN [inp EXCEPT !.f = p.f, !.isempty = p.isempty, !.head = p.head]
    ELSE [inp EXCEPT !.state = "failed"]

\* ProfileOutputSimple::close, after which a ProfileInputSimple is
\* constructed on the file
CodecClose ==
    /\ io # <<>>
    /\ io.state = "writing"
    /\ \E p \in popFill(AppendSync(io.app).disk, io.f, io.head) :
          io' = Filled([io EXCEPT !.app = AppendSync(io.app),
                                  !.state = "reading"], p)
    /\ UNCHANGED <<norun, planners, pool>>

\* ProfileInputSimple::pop
CodecPop ==
    /\ io # <<>>
    /\ io.state = "reading"
    /\ ~io.isempty
    /\ \E p \in popFill(io.app.disk, io.f, io.head) :
          io' = Filled([io EXCEPT !.got = Append(io.got, io.head)], p)
    /\ UNCHANGED <<norun, planners, pool>>

NextCodec == CodecPush \/ CodecClose \/ CodecPop

SpecCodec == InitCodec /\ [][NextCodec]_vars

(***************************************************************************)
(* The uninterrupted run as a function of the original file and of the     *)
(* working memory: the leaves wprof pours, the files wmerge builds from    *)
(* them, and the word main prints.                                         *)
(***************************************************************************)
LastOf(s) == s[Len(s)]

RECURSIVE LeavesFrom(_, _, _, _)
\* the pass ended with r: its pool is poured, and the loop goes on while
\* the file is not exhausted or an entry remains; <<>> when the working
\* memory is insufficient
LeavesAfter(inp, vm, r, acc) ==
    IF ~r.ok THEN <<>>
    ELSE IF ~r.rd.iseof \/ r.rd.inputEntry # NullEntry
    THEN LeavesFrom(inp, vm, r.rd,
                    Append(acc, WriteProfile(PourItems(r.dedup))))
    ELSE Append(acc, WriteProfile(PourItems(r.dedup)))

\* the leaf profiles wprof writes from the reader r0 on, after acc
LeavesFrom(inp, vm, r0, acc) ==
    LeavesAfter(inp, vm, WprofFill(inp, vm, r0), acc)

\* the profiles after the merge steps ps, the file named n being fs[n + 1]
RECURSIVE MergeSteps(_, _)
MergeSteps(fs, ps) ==
    IF ps = <<>> THEN fs
    ELSE MergeSteps(
           Append(fs, WriteProfile(MergePass(
                          ReadProfile(fs[Head(ps).left + 1]),
                          ReadProfile(fs[Head(ps).right + 1])))),
           Tail(ps))

\* the root profile wmerge leaves for the leaves of wprof
RootProfile(leaves) ==
    IF Len(leaves) = 1 THEN leaves[1]
    ELSE LastOf(MergeSteps(leaves, MakePlans(Len(leaves))))

\* what main prints when it runs from start to end without being killed
UninterruptedOutput(inp, vm) ==
    wfindfirst(RootProfile(LeavesFrom(inp, vm, NewReader(0), <<>>)))

(***************************************************************************)
(* The words of the original file, read off its bytes.                     *)
(***************************************************************************)
\* the positions (from 1) where a word starts
TokenStarts(inp) ==
    {i \in 1..Len(inp) :
        ~isWhitespace(inp[i]) /\ (i = 1 \/ isWhitespace(inp[i - 1]))}

\* the position of the last byte of the word that starts at i
TokenEnd(inp, i) ==
    CHOOSE j \in i..Len(inp) :
        /\ \A k \in i..j : ~isWhitespace(inp[k])
        /\ (j = Len(inp) \/ isWhitespace(inp[j + 1]))

TokenWord(inp, i) == SubSeq(inp, i, TokenEnd(inp, i))

\* the starts of the words that occur exactly once
OnceStarts(inp) ==
    {i \in TokenStarts(inp) :
        \A j \in TokenStarts(inp) \ {i} : TokenWord(inp, j) # TokenWord(inp, i)}

\* the word occurring once whose first byte has the smallest offset, <<>>
\* when no word occurs once
FirstOnceWord(inp) ==
    IF OnceStarts(inp) = {} THEN <<>>
    ELSE TokenWord(inp, CHOOSE i \in OnceStarts(inp) :
                            \A j \in OnceStarts(inp) : i <= j)

(***************************************************************************)
(* The records of a log, read off its fields after the version tag.        *)
(***************************************************************************)
\* the number of fields of the record that starts with tag, 0 for no tag
RecordLen(tag) ==
    IF tag = TagSegment THEN 3
    ELSE IF tag = TagMerge THEN 4
    ELSE IF tag \in {TagEnd, TagMergeEnd} THEN 1
    ELSE 0

\* the records from field pos on, each the sequence of its fields; <<>>
\* stands for what follows the last complete record, if anything does
RECURSIVE LogRecordsFrom(_, _, _)
LogRecordsFrom(data, pos, acc) ==
    IF pos > Len(data) THEN acc
    ELSE IF RecordLen(data[pos]) = 0
            \/ pos + RecordLen(data[pos]) - 1 > Len(data)
    THEN Append(acc, <<>>)
    ELSE LogRecordsFrom(data, pos + RecordLen(data[pos]),
             Append(acc, SubSeq(data, pos, pos + RecordLen(data[pos]) - 1)))

LogRecords(data) == LogRecordsFrom(data, 2, <<>>)

\* the records of a log that start with tag, in the order of the log
RECURSIVE SelectTag(_, _)
SelectTag(recs, tag) ==
    IF recs = <<>> THEN <<>>
    ELSE IF Head(recs) # <<>> /\ Head(recs)[1] = tag
    THEN <<Head(recs)>> \o SelectTag(Tail(recs), tag)
    ELSE SelectTag(Tail(recs), tag)

SegmentsOf(data) == SelectTag(LogRecords(data), TagSegment)
MergesOf(data) == SelectTag(LogRecords(data), TagMerge)
HasTag(data, tag) == SelectTag(LogRecords(data), tag) # <<>>

\* the names of the profile files a log names, segs and merges being its
\* wprof.segment and wmerge.merge records: the k-th wprof.segment record
\* names the leaf k - 1, a wmerge.merge record names its out
NamedBy(segs, merges) ==
    (0..(Len(segs) - 1)) \cup {merges[i][4] : i \in 1..Len(merges)}

NamedFiles(data) == NamedBy(SegmentsOf(data), MergesOf(data))

\* whether one of the wmerge.merge records merges names n as left or right
ConsumedBy(merges, n) ==
    \E i \in 1..Len(merges) : merges[i][2] = n \/ merges[i][3] = n

\* the words of a profile file are strictly increasing
StrictlySorted(recs) ==
    \A i \in 1..(Len(recs) - 1) : StrCmp(recs[i].word, recs[i + 1].word) < 0

\* the program points at which a stage works on the original file, the
\* profile files or the output log
LivePcs ==
    {"ver_write", "ver_sync", "wprof_fill", "wprof_remove", "wprof_open",
     "wprof_pour", "wprof_log", "wprof_sync", "wprof_endlog", "wprof_endsync",
     "wmerge_loop", "wmerge_pass", "wmerge_log", "wmerge_sync",
     "wmerge_gc_left", "wmerge_gc_right", "wmerge_endlog", "wmerge_endsync"}

(***************************************************************************)
(* Properties.                                                             *)
(***************************************************************************)
\* C1: whenever a run completes, whatever kills the runs before it went
\* through, it prints the word that a single uninterrupted run on the same
\* original file with the same working memory prints.
C1_RerunPrintsSameWord ==
    pc = "done" => LastOf(outputs) = UninterruptedOutput(input, vmsize)

\* C2: an uninterrupted run prints the word that occurs exactly once in the
\* original file and whose first byte has the smallest offset among such
\* words, and prints nothing (<<>>) exactly when no word occurs once.
C2_PrintsFirstOnceWord ==
    (pc = "done" /\ runs = 1) => outputs[1] = FirstOnceWord(input)

\* an uninterrupted run that split the file into three leaves, merged them
\* and printed a word that is not the first word of the file
C2_Witness ==
    /\ pc = "done" /\ runs = 1 /\ segments = 3
    /\ outputs[1] # <<>>
    /\ \E i \in TokenStarts(input) :
          i < 3 /\ TokenWord(input, i) # outputs[1]

\* C3: every profile file that a wprof.segment or wmerge.merge record of
\* the log names, and that is on disk, holds strictly increasing words, in
\* every state, those after a kill and a restart included.
C3_NamedFilesSorted ==
    \A n \in NamedFiles(logfile.data) \cap DOMAIN files :
        StrictlySorted(files[n])

\* the wprof.segment records segs are contiguous as natural numbers, and
\* reach the last byte of the last word of inp once wprof.end is logged
SegmentsCover(segs, inp, ended) ==
    /\ segs # <<>> => segs[1][2] = 0
    /\ \A i \in 2..Len(segs) : segs[i][2] = segs[i - 1][3] + 1
    /\ (ended /\ TokenStarts(inp) # {}) =>
          /\ segs # <<>>
          /\ \A i \in TokenStarts(inp) :
                TokenEnd(inp, i) - 1 <= LastOf(segs)[3]

\* C4: the wprof.segment records of the log are contiguous as natural
\* numbers (the first starts at 0, each later one at the end of the one
\* before plus 1), and once wprof.end is logged they reach the last
\* non-whitespace byte of the original file.
C4_SegmentsContiguous ==
    SegmentsCover(SegmentsOf(logfile.data), input,
                  HasTag(logfile.data, TagEnd))

\* whether the profile P holds the word w
HoldsWord(P, w) == \E i \in 1..Len(P) : P[i].word = w

\* the occur field of the record of the word w in the profile P
OccOf(P, w) == P[CHOOSE i \in 1..Len(P) : P[i].word = w].occ

\* the occur field the merge of L and R is to give the word w: 0, which
\* marks a repeated word, when both hold w or the one holding it marks it
\* repeated; otherwise the field of the only record of w
MergedOcc(L, R, w) ==
    IF HoldsWord(L, w) /\ HoldsWord(R, w) THEN 0
    ELSE IF HoldsWord(L, w) THEN OccOf(L, w)
    ELSE OccOf(R, w)

\* out is the merge of L and R: strictly increasing, one record for each
\* word of L or R and no other, each with the occur field MergedOcc gives
IsMergeOf(L, R, out) ==
    /\ StrictlySorted(out)
    /\ {out[i].word : i \in 1..Len(out)}
         = {L[i].word : i \in 1..Len(L)} \cup {R[i].word : i \in 1..Len(R)}
    /\ \A i \in 1..Len(out) : out[i].occ = MergedOcc(L, R, out[i].word)

\* C5: the merge pass over two strictly sorted profiles writes one record
\* for each distinct word of the two, in strictly increasing order; the
\* record is marked repeated exactly when the word is repeated in an input
\* or present in both, and otherwise keeps the offset of its only record.
C5_MergePassResult ==
    pc = "wmerge_log" =>
        IsMergeOf(files[plans[cursor + 1].left], files[plans[cursor + 1].right],
                  files[plans[cursor + 1].out])

\* a pass done over two profiles that share a word they both hold once,
\* one of which also holds a word of its own
C5_Witness ==
    /\ pc = "wmerge_log"
    /\ \E w \in MergeWords :
          /\ HoldsWord(files[0], w) /\ HoldsWord(files[1], w)
          /\ OccOf(files[0], w) # 0 /\ OccOf(files[1], w) # 0
    /\ \E w \in MergeWords :
          /\ HoldsWord(files[0], w) /\ ~HoldsWord(files[1], w)
          /\ OccOf(files[0], w) # 0
          /\ OccOf(files[2], w) = OccOf(files[0], w)

\* every one of the records recs is complete
AllComplete(recs) == \A i \in 1..Len(recs) : recs[i] # <<>>

\* C6: in every state, hence at every kill point, the log on disk is made
\* of complete sync units: it is empty, or it is the version tag followed
\* by records that are each wholly there.
C6_LogIsCompleteUnits ==
    \/ logfile.data = <<>>
    \/ /\ logfile.data[1] = Version
       /\ AllComplete(LogRecords(logfile.data))

\* a wmerge.merge record is staged and none of it is on disk
C6_Witness ==
    /\ pc = "wmerge_sync"
    /\ polog.writebuf = MergeRecord(plans[cursor + 1])
    /\ ~HasTag(logfile.data, TagMerge)
    /\ HasTag(logfile.data, TagEnd)

\* no two of the records merges name the same out
DistinctOuts(merges) ==
    \A i, j \in 1..Len(merges) : merges[i][4] = merges[j][4] => i = j

\* every step of ps with a record among old lies before the cursor cur
ReplayedBefore(old, ps, cur) ==
    \A k \in 1..Len(ps) :
        (\E i \in 1..Len(old) : old[i] = MergeRecord(ps[k])) => k <= cur

\* C7: no two wmerge.merge records of the log name the same out, and while
\* wmerge is in its merging loop every step whose record was in the log at
\* start-up lies before the cursor: such a step was replayed, and the step
\* being executed has no record in the log the run started with.
C7_MergeOncePerStep ==
    /\ DistinctOuts(MergesOf(logfile.data))
    /\ pc \in {"wmerge_loop", "wmerge_pass", "wmerge_log", "wmerge_sync",
               "wmerge_gc_left", "wmerge_gc_right"} =>
          ReplayedBefore(MergesOf(logAtStart.data), plans, cursor)

\* a restarted run replayed the first of two merge steps and executes the
\* second one
C7_Witness ==
    /\ runs = 2 /\ pc = "wmerge_pass" /\ cursor = 1 /\ Len(plans) = 2
    /\ MergesOf(logAtStart.data) = <<MergeRecord(plans[1])>>

\* every file of named that is not among the files fs is an input of one
\* of the records merges
MissingAreConsumed(named, merges, fs) ==
    \A n \in named \ DOMAIN fs : ConsumedBy(merges, n)

\* the inputs of every step of ps without a record among merges are among
\* the files fs as soon as they are in named
UnloggedInputsExist(named, merges, ps, fs) ==
    \A k \in 1..Len(ps) :
        (\A i \in 1..Len(merges) : merges[i] # MergeRecord(ps[k])) =>
            ({ps[k].left, ps[k].right} \cap named) \subseteq DOMAIN fs

\* the plans of wmerge for the leaves of the wprof.segment records segs
PlansFor(segs) == IF Len(segs) >= 2 THEN MakePlans(Len(segs)) ELSE <<>>

\* C8: a profile file that the log names and that is no longer on disk is
\* named as left or right by a wmerge.merge record of the log; and once
\* wprof.end is logged, the inputs of every planned merge step without a
\* record are on disk as soon as the log names them.
C8_DeletedOnlyAfterLogged ==
    /\ MissingAreConsumed(NamedFiles(logfile.data), MergesOf(logfile.data),
                          files)
    /\ HasTag(logfile.data, TagEnd) =>
          UnloggedInputsExist(NamedFiles(logfile.data),
                              MergesOf(logfile.data),
                              PlansFor(SegmentsOf(logfile.data)), files)

\* a run was killed after the first of two merge steps was logged and its
\* inputs were removed: the inputs of the second step are on disk
C8_Witness ==
    /\ pc = "off" /\ runs >= 1
    /\ Len(SegmentsOf(logfile.data)) = 3
    /\ Len(MergesOf(logfile.data)) = 1
    /\ DOMAIN files = {2, 3}

\* C9: a run started on a log that ends with wmerge.end goes through
\* neither profiling nor merging, leaves the log and the profile files as
\* it found them, does not fail, and prints what the run before it printed.
C9_RerunOfCompleteLog ==
    (logAtStart.data # <<>> /\ LastOf(logAtStart.data) = TagMergeEnd
       /\ HasTag(logAtStart.data, TagEnd)) =>
        /\ logfile = logAtStart
        /\ files = filesAtStart
        /\ pc \notin LivePcs
        /\ pc # "failed"
        /\ (pc = "done" /\ Len(outputs) >= 2) =>
              outputs[Len(outputs)] = outputs[Len(outputs) - 1]

\* a run completed with a merge, and the run after it completed as well
C9_Witness ==
    /\ pc = "done" /\ runs = 2 /\ Len(outputs) = 2
    /\ LastOf(logAtStart.data) = TagMergeEnd
    /\ outputs[2] # <<>>

\* C10: while the input log is open, that is until recoveryDone, the log is
\* as the run found it and the run is at no point of profiling or merging;
\* and recoveryDone closes the input log only past the last field of the
\* log the run found.  A run that fails in a recovery loop does so with the
\* input log open, hence with the log unchanged.
C10_NoWorkBeforeReplayEnds ==
    /\ [](pilog # 0 => (logfile = logAtStart /\ pc \notin LivePcs))
    /\ [][(pilog # 0 /\ pilog' = 0 /\ pc' # "off")
             => pilog > Len(logAtStart.data)]_vars

\* a recovery loop replayed two segments and failed at a later record,
\* before the end of the log
C10_Witness ==
    /\ pc = "failed" /\ segments = 2
    /\ pilog > 2 /\ pilog <= Len(logfile.data)
    /\ logfile = logAtStart

(***************************************************************************)
(* The merge planners.                                                     *)
(***************************************************************************)
\* a and b agree on the pops both have made
AgreeOnPops(a, b) ==
    \A k \in DOMAIN a \cap DOMAIN b : a[k] = b[k]

Exhausted(o) == o.popped # <<>> /\ ~o.popped[Len(o.popped)].more

Emitted(popped) ==
    [k \in 1..Cardinality({j \in DOMAIN popped : popped[j].more}) |->
        popped[k].plan]

LeafIds(segment) == {segment[i].id : i \in DOMAIN segment}

MaxLeafId(segment) ==
    CHOOSE m \in LeafIds(segment) : \A x \in LeafIds(segment) : x <= m

\* the plans that take node as left or as right, with the side
UsesOf(P, node) ==
    {<<k, "left">> : k \in {j \in DOMAIN P : P[j].left = node}} \cup
    {<<k, "right">> : k \in {j \in DOMAIN P : P[j].right = node}}

\* P merges the leaves into a tree: the ids of its outputs count up from
\* the greatest leaf id, every leaf is used once, every output but the
\* last is used once and by a later plan
PlanTree(P, segment, top) ==
    /\ Len(P) = Len(segment) - 1
    /\ \A k \in DOMAIN P : P[k].id = top + k
    /\ \A x \in LeafIds(segment) : Cardinality(UsesOf(P, x)) = 1
    /\ \A k \in 1..(Len(P) - 1) :
          /\ Cardinality(UsesOf(P, P[k].id)) = 1
          /\ \A u \in UsesOf(P, P[k].id) : u[1] > k
    /\ UsesOf(P, P[Len(P)].id) = {}

PlansOK(o) ==
    /\ PlanTree(Emitted(o.popped), o.segment, MaxLeafId(o.segment))
    /\ o.popped[Len(o.popped)].plan.id = o.popped[Len(o.segment) - 1].plan.id

\* C12: for N >= 2 leaves a planner of either kind emits N - 1 plans whose
\* output ids are max(leaf id) + 1, + 2, ... in emission order; every leaf
\* and every output but the last is the left or right of exactly one plan,
\* emitted after the plan that produced it; the last output is the root.
C12_PlansFormTree ==
    \A i \in DOMAIN planners :
        (Len(planners[i].segment) >= 2 /\ Exhausted(planners[i]))
            => PlansOK(planners[i])

C12_Witness ==
    /\ planners # <<>>
    /\ planners[1].kind = "dp"
    /\ Len(planners[1].segment) = 3
    /\ planners[1].segment[1].id = 2
    /\ planners[1].segment[1].size = 3
    /\ Exhausted(planners[1])
    /\ planners[1].popped[1].plan = MergePlan(3, 1, 0)
    /\ planners[1].popped[2].plan = MergePlan(4, 2, 3)

(***************************************************************************)
(* Start-up: the version tag.                                              *)
(***************************************************************************)
\* the run in progress, or the last one, was started without a log file
FreshRun == runs >= 1 /\ ~logAtStart.exists

\* the run in progress, or the last one, found a log whose first record is
\* not the build's version tag
MismatchRun ==
    /\ runs >= 1
    /\ logAtStart.exists
    /\ logAtStart.data # <<>>
    /\ logAtStart.data[1] # Version

VersionFirst(data) == data # <<>> /\ data[1] = Version

\* C13: a run on a fresh working directory makes the build's version tag
\* the first record of the log and has synced it before it enters a stage;
\* a run that finds a log whose first record is another version tag gets
\* no further than the version check, where it fails, and leaves the log
\* and the profile files as it found them.
C13_VersionTagFirst ==
    /\ FreshRun =>
          /\ logfile.data # <<>> => logfile.data[1] = Version
          /\ pc \notin {"off", "ver_write", "ver_sync"}
                => VersionFirst(logfile.data)
    /\ MismatchRun =>
          /\ pc \in {"ver_check", "failed", "off"}
          /\ pc = "failed" => pilog = 1
          /\ logfile = logAtStart
          /\ files = filesAtStart

C13_Witness ==
    /\ MismatchRun
    /\ pc = "failed"
    /\ files = StaleFiles
    /\ logfile.data = <<Version + 1>>

(***************************************************************************)
(* --disable-gc.                                                           *)
(***************************************************************************)
\* C14: with --disable-gc wmerge deletes no profile file, neither when it
\* replays a wmerge.merge record nor after it has merged: when the run
\* ends, every leaf and every intermediate profile the log names exists.
C14_DisableGCKeepsFiles ==
    (disableGC /\ pc = "done") => NamedFiles(logfile.data) \subseteq DOMAIN files

(***************************************************************************)
(* The dedup pool.                                                         *)
(***************************************************************************)
\* the inserts of word among ins
InsertsOf(ins, word) == {k \in DOMAIN ins : ins[k].word = word}

\* item is the record of word after the inserts ins
RecordOf(item, ins) ==
    /\ InsertsOf(ins, item.word) # {}
    /\ item.repeated <=> Cardinality(InsertsOf(ins, item.word)) >= 2
    /\ ~item.repeated =>
          \A k \in InsertsOf(ins, item.word) : item.occur = ins[k].offset

PouredFrom(out, ins) ==
    /\ Len(out) = Cardinality({ins[k].word : k \in DOMAIN ins})
    /\ \A i \in DOMAIN out : RecordOf(out[i], ins)
    /\ \A i \in 1..(Len(out) - 1) : StrCmp(out[i].word, out[i + 1].word) < 0

\* C15: after any sequence of successful inserts into a fresh TreeDedup
\* pool, pour emits one record per distinct inserted word, in strictly
\* increasing byte order; a record is repeated iff its word was inserted
\* at least twice, and otherwise carries the offset of the one insertion.
C15_PourOfInserts ==
    (pool # <<>> /\ pool.closed) => PouredFrom(pool.poured, pool.inserted)

C15_Witness ==
    /\ pool # <<>>
    /\ pool.closed
    /\ Len(pool.inserted) = 3
    /\ pool.inserted[1].word = Append(Run(BloomWidth), 98)
    /\ pool.inserted[2].word = Run(BloomWidth)
    /\ pool.inserted[3] = [word |-> Append(Run(BloomWidth), 98), offset |-> 5]
    /\ Len(pool.poured) = 2
    /\ pool.poured[2].repeated
    /\ pool.poured[1].occur = 1

(***************************************************************************)
(* The file layer.                                                         *)
(***************************************************************************)
\* got is what was written first
ReadBack(got, vals) ==
    /\ Len(got) <= Len(vals)
    /\ \A k \in DOMAIN got : got[k] = vals[k]

\* C17: the fixed-width values and NUL-terminated strings written to a
\* buffer-mode append file and synced are read back by a sequential file
\* in the same order with equal values, wherever they fall relative to
\* the buffers, and eof() is true exactly after the last one was read.
C17_ReadBackWritten ==
    io # <<>> =>
        /\ io.state # "failed"
        /\ io.state = "reading" =>
              /\ ReadBack(io.got, io.vals)
              /\ FileEof(io.app.disk, io.f) <=> Len(io.got) = Len(io.vals)

(***************************************************************************)
(* The profile codec.                                                      *)
(***************************************************************************)
\* C16: the ProfileItems pushed to a profile output that is then closed
\* are returned by a profile input opened on the file record for record,
\* in the same order, with equal word, repeated flag and occur; empty()
\* becomes true exactly after the last record was popped.
C16_PoppedArePushed ==
    io # <<>> =>
        /\ io.state # "failed"
        /\ io.state = "reading" =>
              /\ ReadBack(io.got, io.vals)
              /\ io.isempty <=> Len(io.got) = Len(io.vals)
              /\ ~io.isempty => io.head = io.vals[Len(io.got) + 1]

(***************************************************************************)
(* wprof: the segments and the words placed in them.                       *)
(***************************************************************************)
\* the offset of the byte after the word that starts at offset off
WordEnd(inp, off) == TokenEnd(inp, off + 1)

\* the words placed for segment k lie in the range of the record seg
PlacedWithin(k, seg) ==
    \A i \in 1..Len(placed[k]) :
        seg[2] <= placed[k][i] /\ placed[k][i] <= seg[3]

\* every logged segment holds the words placed in its pool
PlacedInSegments(segs) ==
    \A k \in 1..Len(segs) : k <= Len(placed) => PlacedWithin(k, segs[k])

\* prevoff lies after every word of the pool and not after the rejected one
BeforeRejected(offs, prevoff, woffset) ==
    /\ prevoff <= woffset
    /\ \A i \in 1..Len(offs) : WordEnd(input, offs[i]) <= prevoff

\* C19: when an insert fails because the pool is full, the wprof.segment
\* record written for the pool ends one byte before the offset at which the
\* reading of the rejected word began (an offset after the words of the pool
\* and not after the rejected word) and the next segment starts at that
\* offset; every word placed in a pool starts inside the range logged for
\* the segment of that pool.
C19_PlacedInsideSegment ==
    /\ (pc = "wprof_sync" /\ rd.inputEntry # NullEntry) =>
          /\ BeforeRejected(placed[segments + 1], rd.prevoff, rd.woffset)
          /\ polog.writebuf = <<TagSegment, offset, rd.prevoff - 1>>
    /\ PlacedInSegments(SegmentsOf(logfile.data))

\* the places <<k, i>> at which the word at offset off was placed in the
\* pool of one of the first n segments
PlacesOf(off, n) ==
    {p \in (1..n) \X (1..MaxInputLen) :
        /\ p[1] <= Len(placed)
        /\ p[2] <= Len(placed[p[1]])
        /\ placed[p[1]][p[2]] = off}

\* C20: under any schedule of kills and restarts during wprof, once
\* wprof.end is logged every occurrence of a word in the input was inserted
\* into the pool of exactly one leaf segment named in the log: none is
\* dropped and none is profiled into two segments.
C20_OccurrenceInOneLeaf ==
    HasTag(logfile.data, TagEnd) =>
        \A t \in TokenStarts(input) :
            Cardinality(PlacesOf(t - 1, Len(SegmentsOf(logfile.data)))) = 1

(***************************************************************************)
(* wprof: termination.                                                     *)
(***************************************************************************)
\* every step of the program but the kill and the pass of wprof
OtherSteps ==
    \/ Start
    \/ VerCheck \/ VerWrite \/ VerSync
    \/ WprofReplay \/ WprofRemove \/ WprofOpen \/ WprofPour
    \/ WprofLog \/ WprofSync \/ WprofEndLog \/ WprofEndSync
    \/ WmergePlan \/ WmergeReplay \/ WmergeOpen \/ WmergePass \/ WmergeLog
    \/ WmergeSync \/ WmergeGCLeft \/ WmergeGCRight \/ WmergeEndLog
    \/ WmergeEndSync
    \/ FindFirst

\* the pass of wprof as a step of pc: WprofFillPool is enabled whenever pc is
\* "wprof_fill", and no other step of Next leads from there to "wprof_remove"
\* or "failed"
FillStep == pc = "wprof_fill" /\ pc' \in {"wprof_remove", "failed"}

\* a process that is not killed takes its next step
SpecFair == Init /\ [][Next]_vars /\ WF_vars(OtherSteps) /\ WF_pc(FillStep)

\* the process is in wprof
InWprof ==
    pc \in {"wprof", "wprof_fill", "wprof_remove", "wprof_open", "wprof_pour",
            "wprof_log", "wprof_sync", "wprof_endlog", "wprof_endsync"}

\* a wprof that is not killed returns or fails
WprofTerminates == InWprof ~> ~InWprof

\* no record of wprof follows a wprof.end record
EndIsLast(recs) ==
    \A i \in 1..Len(recs) : \A j \in (i + 1)..Len(recs) :
        recs[i][1] = TagEnd => recs[j][1] \notin {TagSegment, TagEnd}

\* wprof writes no record after wprof.end
NothingAfterEnd == EndIsLast(LogRecords(logfile.data \o polog.writebuf))

\* wprof returns with wprof.end as the last record of the log
ReturnsAfterEnd ==
    (pc = "wprof_endsync" /\ pc' = "wmerge") =>
        LastOf(LogRecords(logfile'.data)) = <<TagEnd>>

\* the offsets of the words placed in the pools of the first n segments
EarlierOffsets(n) ==
    UNION {{placed[k][i] : i \in 1..Len(placed[k])} :
              k \in {j \in 1..n : j <= Len(placed)}}

\* a pass of the outer loop places a word that is in no earlier segment, or
\* reaches the end of the input
PassProgress ==
    (pc = "wprof_fill" /\ pc' = "wprof_remove") =>
        \/ rd'.iseof
        \/ \E i \in 1..Len(placed'[segments + 1]) :
              placed'[segments + 1][i] \notin EarlierOffsets(segments)

\* C18: on a finite regular input file, with working memory that holds any
\* single word of it, a wprof that is not interrupted terminates, wprof.end
\* is the last record it writes, and every pass of its outer fill-and-pour
\* loop places at least one word that was in no earlier segment or reaches
\* the end of the input.
C18_WprofTerminates ==
    /\ WprofTerminates
    /\ []NothingAfterEnd
    /\ [][ReturnsAfterEnd /\ PassProgress]_vars

(***************************************************************************)
(* wprof: the pools that are logged.                                       *)
(***************************************************************************)
\* the input holds no word
NoWord(inp) == TokenStarts(inp) = {}

\* every one of the first n segments has a word placed in its pool
PoolsHoldWords(n) ==
    \A k \in 1..n : k <= Len(placed) => placed[k] # <<>>

\* C21: wprof writes a segment file and a wprof.segment record only for a
\* pool into which at least one word was placed: an input that is empty or
\* holds whitespace only yields no segment before wprof.end, and a restart
\* whose resume offset is at the end of the input adds no further segment.
C21_SegmentsHoldWords ==
    /\ PoolsHoldWords(Len(SegmentsOf(logfile.data)))
    /\ (NoWord(input) /\ HasTag(logfile.data, TagEnd)) =>
          SegmentsOf(logfile.data) = <<>>

\* the segment record seg lies in a file of size bytes
InFile(seg, size) == seg[2] <= seg[3] + 1 /\ seg[3] + 1 <= size

\* C22: every wprof.segment record satisfies start <= end + 1 <= size of the
\* input as natural numbers: the end field prevoff - 1 is never computed
\* from prevoff = 0 and never wraps around the range of the unsigned offset,
\* for every input (the empty one included) and every memory size.
C22_SegmentEndInFile ==
    \A k \in 1..Len(SegmentsOf(logfile.data)) :
        InFile(SegmentsOf(logfile.data)[k], Len(input))

(***************************************************************************)
(* The content of the files the log names.                                 *)
(***************************************************************************)
\* the words at the offsets offs of the input
WordsAt(offs) == {TokenWord(input, offs[i] + 1) : i \in 1..Len(offs)}

\* the places of offs that hold the word w
PlacesOfWord(offs, w) ==
    {i \in 1..Len(offs) : TokenWord(input, offs[i] + 1) = w}

\* the record a pool holds for the word w after the inserts at offs: the
\* offset, biased by one, of its only occurrence, or 0 when it was inserted
\* more than once
PoolRecord(offs, w) ==
    [word |-> w,
     occ |-> IF Cardinality(PlacesOfWord(offs, w)) = 1
             THEN (offs[CHOOSE i \in PlacesOfWord(offs, w) : TRUE] + 1) % OffMod
             ELSE 0]

\* recs is the pour of the pool filled by the inserts at offs
IsPourOf(recs, offs) ==
    /\ StrictlySorted(recs)
    /\ {recs[i] : i \in 1..Len(recs)}
         = {PoolRecord(offs, w) : w \in WordsAt(offs)}

\* the run found a file named n that its log did not name as a leaf, and
\* has logged the leaf n since
StaleLeaf(n) ==
    /\ n \in DOMAIN filesAtStart
    /\ filesAtStart[n] # <<>>
    /\ Len(SegmentsOf(logAtStart.data)) <= n
    /\ n < Len(SegmentsOf(logfile.data))
    /\ n \in DOMAIN files

\* C23: a leaf file named by a wprof.segment record holds exactly the
\* records poured by the pass that logged it, also when a run killed before
\* the sync of that record left a file of the same name: the file is removed
\* before the pour, never appended to.
C23_LeafIsItsPour ==
    \A k \in 1..Len(SegmentsOf(logfile.data)) :
        (k <= Len(placed) /\ (k - 1) \in DOMAIN files) =>
            IsPourOf(files[k - 1], placed[k])

C23_Witness == \E n \in 0..MaxInputLen : StaleLeaf(n)

\* the records of the pool filled by the inserts at offs
PoolRecords(offs) == {PoolRecord(offs, w) : w \in WordsAt(offs)}

\* the occur field of the record of the word w in the set of records S
OccIn(S, w) == (CHOOSE rec \in S : rec.word = w).occ

\* the records of one merge pass over inputs holding the records L and R
MergedRecords(L, R) ==
    {[word |-> w,
      occ |-> IF w \in {rec.word : rec \in L} /\ w \in {rec.word : rec \in R}
              THEN 0
              ELSE IF w \in {rec.word : rec \in L} THEN OccIn(L, w)
              ELSE OccIn(R, w)] :
        w \in {rec.word : rec \in L \cup R}}

\* the records the file n is to hold by the log: those of its pool for a
\* leaf, those of the merge pass of the record that names it otherwise
RECURSIVE RecordsOf(_, _, _)
MergeOf(segs, merges, m) ==
    MergedRecords(RecordsOf(segs, merges, m[2]), RecordsOf(segs, merges, m[3]))

RecordsOf(segs, merges, n) ==
    IF n < Len(segs) THEN PoolRecords(placed[n + 1])
    ELSE MergeOf(segs, merges,
                 merges[CHOOSE i \in 1..Len(merges) : merges[i][4] = n])

\* the file n holds the records the log gives it, in strictly increasing
\* order
HoldsRecordsOf(segs, merges, n) ==
    /\ StrictlySorted(files[n])
    /\ {files[n][i] : i \in 1..Len(files[n])} = RecordsOf(segs, merges, n)

\* C24: a merge output file named by a wmerge.merge record holds exactly
\* the records of one merge pass over its left and right inputs, also when a
\* run killed during or right after that merge, before the sync of its
\* record, left a file of the same name that the restarted run writes again.
C24_MergeOutputIsOnePass ==
    \A i \in 1..Len(MergesOf(logfile.data)) :
        MergesOf(logfile.data)[i][4] \in DOMAIN files =>
            HoldsRecordsOf(SegmentsOf(logfile.data), MergesOf(logfile.data),
                           MergesOf(logfile.data)[i][4])

(***************************************************************************)
(* wmerge: a kill right after the sync of a wmerge.merge record.           *)
(***************************************************************************)
\* the leaves of the uninterrupted run
RefLeaves == LeavesFrom(input, vmsize, NewReader(0), <<>>)

\* the root id of the uninterrupted run on n leaves
RefRoot(n) == IF n = 1 THEN 0 ELSE LastOf(MakePlans(n)).out

\* the wmerge.merge records of the steps ps
RecordsOfPlans(ps) == [i \in 1..Len(ps) |-> MergeRecord(ps[i])]

\* the second run started where the first, never killed before, was killed
\* right after the sync of a wmerge.merge record: that record is the last of
\* the log, and no file of a later step is on disk
KilledAfterMergeSync ==
    /\ runs = 2
    /\ LogRecords(logAtStart.data) # <<>>
    /\ LastOf(LogRecords(logAtStart.data))[1] = TagMerge
    /\ DOMAIN filesAtStart \subseteq NamedFiles(logAtStart.data)

\* C25: when the process is killed right after the sync of a wmerge.merge
\* record, before or during the removal of the inputs of that step, the
\* restarted run replays the logged steps, performs the remaining ones only,
\* and ends with the root id, the root profile and the printed word of an
\* uninterrupted run on the same input.
C25_ResumeAfterMergeSync ==
    KilledAfterMergeSync =>
        /\ pc # "failed"
        /\ pc = "done" =>
              /\ MergesOf(logfile.data)
                    = RecordsOfPlans(MakePlans(Len(RefLeaves)))
              /\ root = RefRoot(Len(RefLeaves))
              /\ files[root] = RootProfile(RefLeaves)
              /\ LastOf(outputs) = UninterruptedOutput(input, vmsize)

\* the run resumed after the first of two logged steps, whose inputs the
\* killed run had not removed, and printed a word
C25_Witness ==
    /\ KilledAfterMergeSync /\ pc = "done"
    /\ Len(MergesOf(logAtStart.data)) = 1
    /\ Len(MergesOf(logfile.data)) = 2
    /\ {0, 1} \subseteq DOMAIN filesAtStart
    /\ LastOf(outputs) # <<>>

(***************************************************************************)
(* wmerge: the corner cases and the recovery loops.                        *)
(***************************************************************************)
\* wmerge has gone past its corner cases, or has returned
PastCorners ==
    pc \in {"wmerge_replay", "wmerge_loop", "wmerge_pass", "wmerge_log",
            "wmerge_sync", "wmerge_gc_left", "wmerge_gc_right",
            "wmerge_endlog", "wmerge_endsync", "findfirst", "done"}

\* the log as it is once the staged records are synced
LogWithStaged == logfile.data \o polog.writebuf

\* C26: with zero leaves wmerge fails with log-corrupt; with exactly one
\* leaf it returns the id of that leaf as the root and appends a wmerge.end
\* record for it to the log.
C26_WmergeCornerCases ==
    /\ segments = 0 => ~PastCorners
    /\ (segments = 1 /\ pc \in {"findfirst", "done"}) =>
          /\ root = 0
          /\ HasTag(LogWithStaged, TagMergeEnd)

\* the start the recovery loop of wprof expects of a segment record at the
\* position pos of the log: 0 for the first record, the end of the record
\* before it plus one otherwise
ExpectedStart(data, pos) ==
    IF pos = 2 THEN 0 ELSE (data[pos - 1] + 1) % OffMod

\* the recovery loop of wprof reads the record at pilog
ReplaysWprofRecord ==
    /\ pc = "wprof" /\ pilog # 0 /\ ~LogEof(pilog)
    /\ pc' # "off"

\* the record at pilog is a whole wprof.segment record
SegmentAt(data, pos) == data[pos] = TagSegment /\ pos + 2 <= Len(data)

\* what the recovery loop of wprof does with the record at pilog
WprofReplayStep ==
    /\ (SegmentAt(logfile.data, pilog)
          /\ logfile.data[pilog + 1] # ExpectedStart(logfile.data, pilog)) =>
            pc' = "failed"
    /\ logfile.data[pilog] \notin {TagSegment, TagEnd} => pc' = "failed"
    /\ (SegmentAt(logfile.data, pilog)
          /\ logfile.data[pilog + 1] = ExpectedStart(logfile.data, pilog)) =>
            /\ pc' = "wprof"
            /\ pilog' = pilog + 3
            /\ offset' = ExpectedStart(logfile.data, pilog + 3)
            /\ segments' = segments + 1
    /\ UNCHANGED <<logfile, files, polog>>

\* C27: during the replay of wprof, a wprof.segment record whose start
\* differs from the end of the record before it plus one (from 0 for the
\* first record), and a record with an unknown type tag, abort the run with
\* log-corrupt; otherwise the replay only advances the expected start and
\* the count of segments, and it touches no file.
C27_WprofReplayChecks == [][ReplaysWprofRecord => WprofReplayStep]_vars

\* the run was aborted at the second record of a log whose first segment is
\* accepted and whose second does not start after it
C27_Witness ==
    /\ pc = "failed" /\ pilog = 5 /\ segments = 1
    /\ SegmentAt(logfile.data, 5)
    /\ logfile.data[6] # ExpectedStart(logfile.data, 5)

\* the recovery loop of wmerge reads a whole wmerge.merge record at pilog
ReplaysMergeRecord ==
    /\ pc = "wmerge_replay" /\ pilog # 0 /\ ~LogEof(pilog)
    /\ logfile.data[pilog] = TagMerge /\ pilog + 3 <= Len(logfile.data)
    /\ pc' # "off"

\* the record at pilog is the wmerge.merge record of the next planned step
IsNextPlan ==
    /\ cursor < Len(plans)
    /\ SubSeq(logfile.data, pilog, pilog + 3) = MergeRecord(plans[cursor + 1])

\* C28: during the replay of wmerge every wmerge.merge record must equal the
\* next (left, right, out) of the plans; a record that differs from it, and
\* a wmerge.merge record met after all planned merges were replayed, abort
\* the run with log-corrupt.
C28_WmergeReplayChecks ==
    [][ReplaysMergeRecord =>
          IF IsNextPlan THEN pc' = pc /\ cursor' = cursor + 1
          ELSE pc' = "failed"]_vars

\* the log ends with a wmerge.end record that carries the id n
EndsWithRoot(data, n) ==
    /\ Len(data) >= 2
    /\ data[Len(data) - 1] = TagMergeEnd
    /\ data[Len(data)] = n

\* the recovery loop of wmerge reads a wmerge.end record at pilog
ReplaysMergeEnd ==
    /\ pc = "wmerge_replay" /\ pilog # 0 /\ ~LogEof(pilog)
    /\ logfile.data[pilog] = TagMergeEnd
    /\ pc' # "off"

\* the wmerge.end record at pilog carries the root of the plans, all of
\* which were replayed
IsFinalRoot ==
    /\ cursor = Len(plans)
    /\ pilog + 1 <= Len(logfile.data)
    /\ logfile.data[pilog + 1] = LastOf(plans).out

\* C29: the wmerge.end record carries the root id; its replay succeeds only
\* if every planned merge was replayed and the id of the record is the final
\* root of the plans, and wmerge then returns that id; otherwise the run is
\* aborted with log-corrupt.
C29_MergeEndCarriesRoot ==
    /\ []((pc = "done" /\ HasTag(logfile.data, TagMergeEnd)) =>
             EndsWithRoot(logfile.data, root))
    /\ [][ReplaysMergeEnd =>
             IF IsFinalRoot
             THEN pc' = "findfirst" /\ root' = logfile.data[pilog + 1]
             ELSE pc' = "failed"]_vars

(***************************************************************************)
(* The shape of the log on disk.                                           *)
(***************************************************************************)
\* the type tags of the records recs, 0 for what is no whole record
TagsOf(recs) ==
    [i \in 1..Len(recs) |-> IF recs[i] = <<>> THEN 0 ELSE recs[i][1]]

\* the tags are those of wprof.segment records, then maybe wprof.end and
\* wmerge.merge records, then maybe wmerge.end
StageOrder(tags) ==
    \A i \in 1..Len(tags) :
        /\ tags[i] \in {TagSegment, TagEnd, TagMerge, TagMergeEnd}
        /\ tags[i] = TagSegment =>
              \A j \in 1..(i - 1) : tags[j] = TagSegment
        /\ tags[i] = TagEnd =>
              \A j \in 1..(i - 1) : tags[j] = TagSegment
        /\ tags[i] = TagMerge =>
              /\ \E j \in 1..(i - 1) : tags[j] = TagEnd
              /\ \A j \in 1..(i - 1) : tags[j] # TagMergeEnd
        /\ tags[i] = TagMergeEnd =>
              /\ i = Len(tags)
              /\ \E j \in 1..(i - 1) : tags[j] = TagEnd

\* the log starts with the version tag and goes on with whole records in
\* the order of the stages
LogShape(data) ==
    /\ data # <<>>
    /\ data[1] = Version
    /\ StageOrder(TagsOf(LogRecords(data)))

\* a is the start of b
IsPrefix(a, b) == Len(a) <= Len(b) /\ SubSeq(b, 1, Len(a)) = a

\* the log on disk only grows, and not after wmerge.end
LogOnlyGrows ==
    logfile.exists =>
        /\ logfile'.exists
        /\ IsPrefix(logfile.data, logfile'.data)
        /\ (logfile.data # <<>> /\ LastOf(logfile.data) = TagMergeEnd) =>
              logfile' = logfile

\* C30: at every point where the process can be killed the log on disk has
\* the shape: version tag, then zero or more wprof.segment records, then
\* maybe wprof.end followed by zero or more wmerge.merge records, then maybe
\* wmerge.end; nothing is appended after wmerge.end, and a record once
\* synced is never altered or removed by a later run.
C30_LogShape ==
    /\ [](logfile.exists => LogShape(logfile.data))
    /\ [][LogOnlyGrows]_vars

(***************************************************************************)
(* The Simple planner over wider levels: two planners constructed from N   *)
(* leaves of one byte each, queued by ascending or by descending id.       *)
(***************************************************************************)
\* the most leaves of a level
MaxLevelLeaves == 9

\* n leaves, the i-th with the id ids[i]
LeavesWith(ids) ==
    [i \in DOMAIN ids |->
        [id |-> ids[i], start |-> i - 1, end |-> i - 1, size |-> 1]]

LevelLeaves(n) ==
    {LeavesWith([i \in 1..n |-> i - 1]), LeavesWith([i \in 1..n |-> n - i])}

InitLevels ==
    /\ NoRun
    /\ pool = <<>>
    /\ io = <<>>
    /\ \E n \in 0..MaxLevelLeaves :
          \E segment \in LevelLeaves(n) :
              planners = [i \in 1..2 |-> Observed("simple", segment)]

SpecLevels == InitLevels /\ [][NextPlan]_vars

\* the merges of one level: its nodes paired in their order, the k-th pair
\* merged into put + k - 1
LevelPairs(level, put) ==
    [k \in 1..(Len(level) \div 2) |->
        MergePlan(put + k - 1, level[2 * k - 1], level[2 * k])]

\* the next level: the merged nodes, then the unpaired last node
LevelAbove(level, put) ==
    [k \in 1..(Len(level) \div 2) |-> put + k - 1] \o
    (IF Len(level) % 2 = 1 THEN <<level[Len(level)]>> ELSE <<>>)

RECURSIVE LevelPlans(_, _, _)
\* the merges of the levels from level upwards
LevelPlans(level, put, acc) ==
    IF Len(level) <= 1 THEN acc
    ELSE LevelPlans(LevelAbove(level, put), put + Len(level) \div 2,
                    acc \o LevelPairs(level, put))

RECURSIVE HeightOf(_, _)
\* the height of node in the tree of the plans P, a leaf being of height 0
HeightOf(P, node) ==
    IF \E k \in DOMAIN P : P[k].id = node
    THEN LET k == CHOOSE j \in DOMAIN P : P[j].id = node
             l == HeightOf(P, P[k].left)
             r == HeightOf(P, P[k].right)
         IN  1 + (IF l > r THEN l ELSE r)
    ELSE 0

\* ceil(log2 n) for n >= 1
CeilLog2(n) == CHOOSE h \in 0..n : 2^h >= n /\ (h = 0 \/ 2^(h - 1) < n)

\* the plans of wmerge for n leaves, as MergePlans
WmergePlans(n) == SimplePlans(MakePlans(n))

LevelOrder(o) ==
    /\ o.planner.plans =
          LevelPlans([i \in DOMAIN o.segment |-> o.segment[i].id],
                     Len(o.segment), <<>>)
    /\ Emitted(o.popped) = SubSeq(o.planner.plans, 1, Len(Emitted(o.popped)))
    /\ HeightOf(o.planner.plans, o.planner.root) = CeilLog2(Len(o.segment))
    /\ WmergePlans(Len(o.segment)) =
          LevelPlans([i \in DOMAIN o.segment |-> i - 1], Len(o.segment), <<>>)
    /\ HeightOf(WmergePlans(Len(o.segment)),
                WmergePlans(Len(o.segment))[Len(o.segment) - 1].id) =
          CeilLog2(Len(o.segment))

\* C31: for N >= 2 leaves the Simple planner pairs the nodes level by level
\* in the order of the queue, an unpaired last node of a level going to the
\* end of the next level, and the tree of its plans has the height
\* ceil(log2 N).
C31_SimpleLevelOrder ==
    \A i \in DOMAIN planners :
        Len(planners[i].segment) >= 2 => LevelOrder(planners[i])

\* five leaves queued by descending id, all plans popped: the last leaf was
\* carried twice
C31_Witness ==
    /\ planners # <<>>
    /\ Len(planners[1].segment) = 5
    /\ planners[1].segment[1].id = 4
    /\ Exhausted(planners[1])
    /\ Emitted(planners[1].popped) =
          <<MergePlan(5, 4, 3), MergePlan(6, 2, 1), MergePlan(7, 5, 6),
            MergePlan(8, 7, 0)>>

(***************************************************************************)
(* The DP planner over leaves of several sizes: a planner constructed from *)
(* N leaves with ascending ids, then popped and pushed.                    *)
(***************************************************************************)
\* the most leaves of a DP planner under observation
MaxDPLeaves == 4

\* the sizes of the leaves
DPSizes == {1, 2, 4}

SizedLeaves(n) ==
    {[i \in 1..n |-> [id |-> i - 1, start |-> i - 1, end |-> i - 1,
                      size |-> sizes[i]]] : sizes \in [1..n -> DPSizes]}

InitDP ==
    /\ NoRun
    /\ pool = <<>>
    /\ io = <<>>
    /\ \E n \in 0..MaxDPLeaves :
          \E segment \in SizedLeaves(n) :
              planners = <<Observed("dp", segment)>>

NextDP ==
    \/ PlannerPop(1)
    \/ PlannerPush(1)

SpecDP == InitDP /\ [][NextDP]_vars

RECURSIVE RangeSize(_, _, _)
\* the size of the leaves j..m, counted from 1
RangeSize(segment, j, m) ==
    IF j > m THEN 0 ELSE segment[j].size + RangeSize(segment, j + 1, m)

RECURSIVE TreeCosts(_, _, _)
\* the costs of all the binary merge trees over the leaves j..m, a merge
\* costing twice the size of its two ranges
TreeCosts(segment, j, m) ==
    IF j = m THEN {0}
    ELSE UNION {{a + b + 2 * RangeSize(segment, j, m) :
                    a \in TreeCosts(segment, j, k),
                    b \in TreeCosts(segment, k + 1, m)} : k \in j..(m - 1)}

Least(S) == CHOOSE x \in S : \A y \in S : x <= y

\* the trees over j..m that split after k reach the least cost
SplitIsBest(segment, j, m, k) ==
    \E a \in TreeCosts(segment, j, k), b \in TreeCosts(segment, k + 1, m) :
        a + b + 2 * RangeSize(segment, j, m) = Least(TreeCosts(segment, j, m))

RECURSIVE RangeOf(_, _, _)
\* the leaves under node in the plans P, as <<first, last>> counted from 1;
\* <<0, 0>> if the leaves under it are not a range
RangeOf(P, segment, node) ==
    IF \E k \in DOMAIN P : P[k].id = node
    THEN LET k == CHOOSE j \in DOMAIN P : P[j].id = node
             l == RangeOf(P, segment, P[k].left)
             r == RangeOf(P, segment, P[k].right)
         IN  IF l # <<0, 0>> /\ r # <<0, 0>> /\ l[2] + 1 = r[1]
             THEN <<l[1], r[2]>> ELSE <<0, 0>>
    ELSE IF \E i \in DOMAIN segment : segment[i].id = node
    THEN LET i == CHOOSE j \in DOMAIN segment : segment[j].id = node
         IN  <<i, i>>
    ELSE <<0, 0>>

RECURSIVE PlansCost(_, _, _)
\* the cost of the merges k.. of P
PlansCost(P, segment, k) ==
    IF k > Len(P) THEN 0
    ELSE 2 * RangeSize(segment, RangeOf(P, segment, P[k].id)[1],
                       RangeOf(P, segment, P[k].id)[2])
         + PlansCost(P, segment, k + 1)

\* the merge p of P joins two ranges that touch, at the leftmost split
\* that reaches the least cost of its range
LeftmostBest(P, segment, p) ==
    /\ RangeOf(P, segment, p.id) # <<0, 0>>
    /\ SplitIsBest(segment, RangeOf(P, segment, p.id)[1],
                   RangeOf(P, segment, p.id)[2],
                   RangeOf(P, segment, p.left)[2])
    /\ \A k \in RangeOf(P, segment, p.id)[1]..
                (RangeOf(P, segment, p.left)[2] - 1) :
          ~SplitIsBest(segment, RangeOf(P, segment, p.id)[1],
                       RangeOf(P, segment, p.id)[2], k)

DPOptimal(o) ==
    /\ Emitted(o.popped) = SubSeq(o.planner.plans, 1, Len(Emitted(o.popped)))
    /\ RangeOf(o.planner.plans, o.segment, o.planner.root) =
          <<1, Len(o.segment)>>
    /\ PlansCost(o.planner.plans, o.segment, 1) =
          Least(TreeCosts(o.segment, 1, Len(o.segment)))
    /\ \A k \in DOMAIN o.planner.plans :
          LeftmostBest(o.planner.plans, o.segment, o.planner.plans[k])

\* C32: for every vector of leaf sizes the plans of the DP planner are a
\* binary merge tree over contiguous ranges of leaves whose total cost, the
\* sum over the merges of twice the size of the two ranges merged, is the
\* least over all such trees, and every range on the tree is split at the
\* leftmost split that reaches the least cost.
C32_DPPlansOptimal ==
    \A i \in DOMAIN planners :
        Len(planners[i].segment) >= 2 => DPOptimal(planners[i])

\* three leaves of one size, where both splits cost the same, all popped
C32_Witness ==
    /\ planners # <<>>
    /\ Len(planners[1].segment) = 3
    /\ \A i \in 1..3 : planners[1].segment[i].size = 2
    /\ Exhausted(planners[1])
    /\ Emitted(planners[1].popped) = <<MergePlan(3, 1, 2), MergePlan(4, 0, 3)>>

(***************************************************************************)
(* The working memory manager on its own (wwmman.hpp): alloc is called on  *)
(* a fresh arena with pool sizes of any mix.  An item pointer is the index *)
(* of its slot, a pool pointer the offset from vmaddr, -1 is nullptr.      *)
(***************************************************************************)
\* the most calls of alloc on one arena
MaxAllocs == 4

\* the sizes of the arenas: room for one, two and three items, with spare
ArenaSizes == {ItemSize + 4, 2 * ItemSize + 8, 3 * ItemSize + 12}

\* the pool sizes asked for
AllocSizes == {0, 1, 4, ItemSize + 8}

NewManager(vm) == [vmsize |-> vm, poolsize |-> 0, arraysize |-> 0]

\* MemoryManager::alloc: [ok, wmman, item, pool], item and pool being the
\* output arguments
Alloc(m, allocpool, item, poolarg) ==
    IF ~AllocFits(m, allocpool, m.vmsize)
    THEN [ok |-> FALSE, wmman |-> m, item |-> item, pool |-> poolarg]
    ELSE [ok |-> TRUE,
          wmman |-> [m EXCEPT !.arraysize = m.arraysize + 1,
                              !.poolsize = m.poolsize + allocpool],
          item |-> m.arraysize,
          pool |-> IF allocpool > 0
                   THEN m.vmsize - (m.poolsize + allocpool) ELSE poolarg]

\* the bytes handed out by a call that returned r: the slot of the item
\* and, when asked for, the part of the pool
Granted(r, allocpool) ==
    IF ~r.ok THEN <<>>
    ELSE <<<<r.item * ItemSize, (r.item + 1) * ItemSize>>>> \o
         (IF allocpool > 0 THEN <<<<r.pool, r.pool + allocpool>>>> ELSE <<>>)

InitArena ==
    /\ NoRun
    /\ planners = <<>>
    /\ io = <<>>
    /\ \E vm \in ArenaSizes :
          pool = [wmman |-> NewManager(vm), item |-> -1, pool |-> -1,
                  ret |-> TRUE, asked |-> 0, calls |-> 0, granted |-> <<>>]

ArenaCalled(r, allocpool) ==
    [wmman |-> r.wmman, item |-> r.item, pool |-> r.pool, ret |-> r.ok,
     asked |-> allocpool, calls |-> pool.calls + 1,
     granted |-> pool.granted \o Granted(r, allocpool)]

\* a call of alloc with the output arguments of the call before
ArenaAlloc ==
    /\ pool.calls < MaxAllocs
    /\ \E allocpool \in AllocSizes :
          pool' = ArenaCalled(Alloc(pool.wmman, allocpool, pool.item,
                                    pool.pool), allocpool)
    /\ UNCHANGED <<norun, planners, io>>

NextArena == ArenaAlloc

SpecArena == InitArena /\ [][NextArena]_vars

\* the items and the pool fit into the arena, and no two of the parts
\* handed out share a byte or leave the arena
ArenaSound(a) ==
    /\ a.wmman.arraysize * ItemSize + a.wmman.poolsize <= a.wmman.vmsize
    /\ \A i \in DOMAIN a.granted :
          /\ 0 <= a.granted[i][1]
          /\ a.granted[i][1] <= a.granted[i][2]
          /\ a.granted[i][2] <= a.wmman.vmsize
    /\ \A i, j \in DOMAIN a.granted :
          i < j => \/ a.granted[i][2] <= a.granted[j][1]
                   \/ a.granted[j][2] <= a.granted[i][1]

\* a call returns false exactly when the item and the pool part asked for
\* do not fit, and then changes neither the manager nor its arguments
AllocFrame ==
    pool'.calls = pool.calls + 1 =>
        /\ pool'.ret <=>
              (pool.wmman.arraysize + 1) * ItemSize + pool.wmman.poolsize
                  + pool'.asked <= pool.wmman.vmsize
        /\ ~pool'.ret =>
              /\ pool'.wmman = pool.wmman
              /\ pool'.item = pool.item
              /\ pool'.pool = pool.pool

\* C33: after any sequence of alloc calls on the arena, item count times
\* sizeof(Item) plus the pool bytes is at most the capacity, so the item
\* array growing from the low end and the string pool growing from the high
\* end never overlap; an alloc that cannot be satisfied returns false and
\* leaves the item count, the pool size and its output arguments unchanged.
C33_ArenaNeverOverlaps ==
    /\ [](ArenaSound(pool))
    /\ [][AllocFrame]_vars

\* an arena filled to the last byte by two items with pool parts, on which
\* a third alloc has failed
C33_Witness ==
    /\ pool.calls = 3
    /\ ~pool.ret
    /\ pool.wmman.arraysize = 2
    /\ pool.wmman.arraysize * ItemSize + pool.wmman.poolsize
          = pool.wmman.vmsize
    /\ pool.item = 1
    /\ pool.pool = 2 * ItemSize

(***************************************************************************)
(* The frame of TreeDedup::insert.                                         *)
(***************************************************************************)
\* word is in the pool: an insert of it has returned true
InPool(p, word) == \E i \in DOMAIN p.inserted : p.inserted[i].word = word

\* the arena of the pool p has no room for one more item
ArenaFull(p) ==
    (p.dedup.arraysize + 1) * ItemSize + p.dedup.poolsize > p.vm

\* the step is a call of insert: what it returned is pool'.last
InsertFrame ==
    (pool # <<>> /\ ~pool'.closed) =>
        /\ ~pool'.last.ok => pool'.dedup = pool.dedup
        /\ InPool(pool, pool'.last.word) =>
              /\ pool'.last.ok
              /\ pool'.dedup.arraysize = pool.dedup.arraysize
              /\ pool'.dedup.poolsize = pool.dedup.poolsize
              /\ Len(pool'.dedup.items) = Len(pool.dedup.items)

\* C34: a TreeDedup insert that returns false leaves the pool, the
\* contents of the tree and the use of the arena, unchanged; an insert of a
\* word that is already in the pool always returns true and allocates
\* nothing, even when the arena has no room for a new item.
C34_InsertFrame == [][InsertFrame]_vars

\* a word of the pool inserted again into a full arena, after an insert of
\* another word was turned down
C34_Witness ==
    /\ pool # <<>>
    /\ Len(pool.inserted) = 3
    /\ ArenaFull(pool)
    /\ pool.last.ok
    /\ pool.last.word = pool.inserted[1].word
    /\ pool.last.word # pool.inserted[2].word
    /\ pool.inserted[3].word = pool.last.word
    /\ pool.dedup.items[FindItem(pool.dedup, Decompose(pool.last.word))].occur
          = 0

(***************************************************************************)
(* The sort dedup pool (wsortdedup.cpp).  An item is [bloom, pool, occur], *)
(* pool being the distance of the pool string's first byte from the end of *)
(* the working memory, -1 for nullptr.  mem[k] is the byte k before the    *)
(* end of the working memory, beyond the byte behind its end.              *)
(***************************************************************************)
\* sizeof(SortDedupItem): pool, bloom and occur
SortItemSize == 24

\* what a byte of the working memory that was never written can hold
Junk == {0, 98}

NewSortDedup(vm) ==
    [vmsize |-> vm, poolsize |-> 0, arraysize |-> 0, items |-> <<>>,
     mem |-> <<>>, beyond |-> 0, oob |-> FALSE]

\* the pool end after the suffix of b was copied to the allocpool new
\* bytes: the byte after the copied ones keeps what it held, junk
SortPoolCopied(sd, b, junk) ==
    [k \in 1..(sd.poolsize + b.allocpool) |->
        IF k <= sd.poolsize THEN sd.mem[k]
        ELSE IF k = sd.poolsize + 1 THEN junk
        ELSE b.pool[sd.poolsize + b.allocpool - k + 1]]

\* pool[allocpool] = '\0': the byte behind the new string is set, which is
\* the first byte of the string allocated before it, or the byte behind
\* the working memory
SortPoolEnded(sd, mem) ==
    IF sd.poolsize = 0
    THEN [sd EXCEPT !.mem = mem, !.beyond = 0, !.oob = TRUE]
    ELSE [sd EXCEPT !.mem = [mem EXCEPT ![sd.poolsize] = 0]]

\* SortDedup::insert of the decomposed word b: [ok, dedup]
SortInsertKey(sd, b, off, junk) ==
    IF (b.allocpool + sd.poolsize) + (sd.arraysize + 1) * SortItemSize
          > sd.vmsize
    THEN [ok |-> FALSE, dedup |-> sd]
    ELSE IF b.allocpool > 0
    THEN [ok |-> TRUE,
          dedup |-> [SortPoolEnded(sd, SortPoolCopied(sd, b, junk)) EXCEPT
                        !.arraysize = sd.arraysize + 1,
                        !.poolsize = sd.poolsize + b.allocpool,
                        !.items = Append(sd.items,
                            [bloom |-> b.bloom,
                             pool |-> sd.poolsize + b.allocpool,
                             occur |-> off])]]
    ELSE [ok |-> TRUE,
          dedup |-> [sd EXCEPT
                        !.arraysize = sd.arraysize + 1,
                        !.items = Append(sd.items,
                            [bloom |-> b.bloom, pool |-> -1,
                             occur |-> off])]]

\* SortDedup::insert
SortInsert(sd, word, off, junk) ==
    IF Len(word) = 0 THEN [ok |-> FALSE, dedup |-> sd]
    ELSE SortInsertKey(sd, Decompose(word), off, junk)

RECURSIVE PoolString(_, _)
\* the C string whose first byte is k before the end of the working memory
PoolString(sd, k) ==
    IF k <= 0 \/ sd.mem[k] = 0 THEN <<>>
    ELSE <<sd.mem[k]>> \o PoolString(sd, k - 1)

\* SortDedupItem::operator-
SortItemCmp(sd, l, r) ==
    IF l.bloom # r.bloom THEN StrCmp(l.bloom, r.bloom)
    ELSE IF l.pool = -1 THEN (IF r.pool = -1 THEN 0 ELSE -1)
    ELSE IF r.pool = -1 THEN 1
    ELSE StrCmp(PoolString(sd, l.pool), PoolString(sd, r.pool))

\* std::sort: the items in the order of operator<; items that compare
\* equal may come in any order, of which this is one
SortPlace(sd, sorted, it) ==
    InsertAfter(sorted, it,
        Cardinality({i \in 1..Len(sorted) : SortItemCmp(sd, sorted[i], it) <= 0}))

RECURSIVE SortItems(_, _, _)
SortItems(sd, k, sorted) ==
    IF k > Len(sd.items) THEN sorted
    ELSE SortItems(sd, k + 1, SortPlace(sd, sorted, sd.items[k]))

\* writeitem: the word is rebuilt from the bloom and the pool string
SortWord(sd, it) ==
    CStr(it.bloom) \o (IF it.pool # -1 THEN PoolString(sd, it.pool) ELSE <<>>)

SortWriteItem(sd, it, first, last) ==
    IF first = last THEN SingleItem(SortWord(sd, it), it.occur)
    ELSE RepeatedItem(SortWord(sd, it))

RECURSIVE SortScan(_, _, _, _, _)
\* the scan of pour over the sorted items S, counted from 1: j is the first
\* item of the run, i the item looked at
SortScan(sd, S, j, i, out) ==
    IF i > Len(S) THEN Append(out, SortWriteItem(sd, S[j], j, Len(S)))
    ELSE IF SortItemCmp(sd, S[i], S[j]) # 0
    THEN SortScan(sd, S, i, i + 1,
                  Append(out, SortWriteItem(sd, S[j], j, i - 1)))
    ELSE SortScan(sd, S, j, i + 1, out)

\* an item slot that was never written, as pour reads it when arraysize
\* is 0; its pool is taken to be null
SortJunkItem(junk) ==
    [bloom |-> [n \in 1..BloomWidth |-> IF n = BloomWidth THEN junk ELSE 0],
     pool |-> -1, occur |-> 0]

\* SortDedup::pour: the items pushed.  With arraysize 0 the scan writes
\* items[0] with first = 0 and last = arraysize - 1, which wraps
SortPour(sd, junk) ==
    IF sd.arraysize = 0
    THEN <<RepeatedItem(SortWord(sd, SortJunkItem(junk)))>>
    ELSE SortScan(sd, SortItems(sd, 1, <<>>), 1, 2, <<>>)

(***************************************************************************)
(* The sort dedup pool on its own: words are inserted into a fresh pool,   *)
(* which is then poured.                                                   *)
(***************************************************************************)
\* the words inserted: short ones, one that fills the bloom part, three
\* that need the pool part, and the empty word
SortWords ==
    {<<>>, <<97>>, <<98>>, Run(BloomWidth), Run(BloomWidth + 1),
     Append(Run(BloomWidth), 98), Append(Run(BloomWidth + 1), 98)}

InitSort ==
    /\ NoRun
    /\ planners = <<>>
    /\ io = <<>>
    /\ \E vm \in {2 * SortItemSize + 4, (MaxInserts + 1) * SortItemSize} :
          pool = [dedup |-> NewSortDedup(vm), inserted |-> <<>>,
                  poured |-> <<>>, closed |-> FALSE]

SortInserted(r, word, off) ==
    [pool EXCEPT !.dedup = r.dedup,
                 !.inserted = IF r.ok
                              THEN Append(pool.inserted,
                                          [word |-> word, offset |-> off])
                              ELSE pool.inserted]

\* a call of insert; a write behind the working memory may stop the
\* process, after which nothing is poured
SortInsertStep ==
    /\ ~pool.closed
    /\ ~pool.dedup.oob
    /\ Len(pool.inserted) < MaxInserts
    /\ \E word \in SortWords, off \in PoolOffsets, junk \in Junk :
          pool' = SortInserted(SortInsert(pool.dedup, word, off, junk),
                               word, off)
    /\ UNCHANGED <<norun, planners, io>>

\* the write behind the working memory went through unnoticed
SortGoOn ==
    /\ ~pool.closed
    /\ pool.dedup.oob
    /\ pool' = [pool EXCEPT !.dedup.oob = FALSE]
    /\ UNCHANGED <<norun, planners, io>>

SortPourStep ==
    /\ ~pool.closed
    /\ ~pool.dedup.oob
    /\ \E junk \in Junk :
          pool' = [pool EXCEPT !.poured = SortPour(pool.dedup, junk),
                               !.closed = TRUE]
    /\ UNCHANGED <<norun, planners, io>>

NextSort == SortInsertStep \/ SortGoOn \/ SortPourStep

SpecSort == InitSort /\ [][NextSort]_vars

\* C35: for the sort-based pool, after any possibly empty sequence of
\* successful inserts, among them words longer than the fixed-width prefix
\* whose suffix is stored in the string pool, pour emits exactly one record
\* per distinct inserted word with the exact bytes of the word, in strictly
\* increasing order, marked repeated iff the word was inserted at least
\* twice; a pool with no inserts pours zero records.
C35_SortPourOfInserts ==
    pool.closed =>
        /\ PouredFrom(pool.poured, pool.inserted)
        /\ pool.inserted = <<>> => pool.poured = <<>>

(***************************************************************************)
(* The profile input on its own (wpflsimple.cpp): a ProfileInputSimple is  *)
(* constructed on a profile of short words, then peeked and popped, also   *)
(* when it is empty.                                                       *)
(***************************************************************************)
\* the items of the profile
InputItems ==
    {RepeatedItem(<<97>>), SingleItem(<<97>>, 0), SingleItem(<<98>>, 3),
     SingleItem(Run(BloomWidth), 1)}

RECURSIVE ProfileBytes(_, _, _)
\* the file a ProfileOutputSimple leaves after the pushes k.. of vals
ProfileBytes(a, vals, k) ==
    IF k > Len(vals) THEN AppendSync(a)
    ELSE ProfileBytes(PushBytes(a, PushRecord(vals[k])), vals, k + 1)

\* the input before the constructor calls popFill
NewInput(vals) ==
    [app |-> ProfileBytes(NewAppend(<<>>), vals, 1), vals |-> vals,
     f |-> OpenSeq(0), got |-> <<>>, state |-> "reading", isempty |-> TRUE,
     head |-> RepeatedItem(<<>>), peeked |-> RepeatedItem(<<>>), pops |-> 0]

InitInput ==
    /\ NoRun
    /\ planners = <<>>
    /\ pool = <<>>
    /\ \E n \in 0..MaxValues :
          \E vals \in [1..n -> InputItems] :
              \E p \in popFill(NewInput(vals).app.disk, OpenSeq(0),
                               RepeatedItem(<<>>)) :
                  io = Filled(NewInput(vals), p)

\* ProfileInputSimple::peek
InputPeek ==
    /\ io.state = "reading"
    /\ io' = [io EXCEPT !.peeked = io.head]
    /\ UNCHANGED <<norun, planners, pool>>

\* the head after result(std::move(head)): its word was moved out
MovedHead(h) == [h EXCEPT !.word = <<>>]

\* ProfileInputSimple::pop on the input inp, which is not kept from an
\* empty input: the inputs it can leave, got taking what it returns
Popped(inp) ==
    {Filled([inp EXCEPT !.got = Append(inp.got, inp.head),
                        !.pops = inp.pops + 1], p) :
        p \in popFill(inp.app.disk, inp.f, MovedHead(inp.head))}

InputPop ==
    /\ io.state = "reading"
    /\ io.pops <= Len(io.vals)
    /\ io' \in Popped(io)
    /\ UNCHANGED <<norun, planners, pool>>

NextInput == InputPeek \/ InputPop

SpecInput == InitInput /\ [][NextInput]_vars

\* while records remain the head is the next of them, and the input is
\* empty once none remains
HeadPrefetched ==
    io.state = "reading" =>
        /\ io.isempty <=> Len(io.got) >= Len(io.vals)
        /\ ~io.isempty => io.head = io.vals[Len(io.got) + 1]

\* peek returns the head and consumes nothing
PeekKeeps ==
    (io'.pops = io.pops /\ ~io.isempty) =>
        /\ io'.peeked = io.head
        /\ io'.head = io.head /\ io'.f = io.f /\ io'.got = io.got

\* pop returns the head, and raises an error on an empty input
PopReturnsHead ==
    io'.pops = io.pops + 1 =>
        IF io.isempty
        THEN io'.state = "failed" /\ io'.got = io.got
        ELSE io'.got = Append(io.got, io.head)

\* C36: a profile input always holds a prefetched head: empty() is true iff
\* no record remains, peek() returns the head without consuming it, and
\* pop() returns the head and prefetches the next record; pop() on an empty
\* input raises an error instead of returning an item.
C36_InputHead ==
    /\ [](HeadPrefetched)
    /\ [][PeekKeeps /\ PopReturnsHead]_vars

(***************************************************************************)
(* The filtered profile input on its own (wpflfilter.cpp): a               *)
(* ProfileInputFilter is constructed on a ProfileInputSimple and popped    *)
(* while it is not empty.  out keeps what the filter returned.             *)
(***************************************************************************)
\* the items of the profile under the filter
FilterItems ==
    {RepeatedItem(<<97>>), RepeatedItem(<<98>>), SingleItem(<<97>>, 0),
     SingleItem(<<98>>, 3)}

RECURSIVE SkipRepeated(_)
\* a loop that pops one repeated head at most
SkipRepeatedOnce(inp) ==
    IF inp.state = "reading" /\ ~inp.isempty /\ inp.head.repeated
    THEN Popped(inp)
    ELSE {inp}

\* while((!delegated->empty()) && delegated->peek().repeated)
\*     delegated->pop();
SkipRepeated(inp) ==
    IF inp.state = "reading" /\ ~inp.isempty /\ inp.head.repeated
    THEN UNION {SkipRepeated(q) : q \in Popped(inp)}
    ELSE {inp}

\* the constructor of ProfileInputFilter on the delegated input
NewFilter(delegated) ==
    {c @@ [out |-> <<>>] : c \in SkipRepeated(delegated)}

InitFilter ==
    /\ NoRun
    /\ planners = <<>>
    /\ pool = <<>>
    /\ \E n \in 0..MaxValues :
          \E vals \in [1..n -> FilterItems] :
              \E p \in popFill(NewInput(vals).app.disk, OpenSeq(0),
                               RepeatedItem(<<>>)) :
                  io \in NewFilter(Filled(NewInput(vals), p))

\* ProfileInputFilter::pop: the head of the delegated input is returned
\* after the repeated records behind it were popped
FilterPopped(inp) ==
    UNION {SkipRepeated([q EXCEPT !.out = Append(inp.out, inp.head)]) :
              q \in Popped(inp)}

FilterPop ==
    /\ io.state = "reading"
    /\ ~io.isempty
    /\ io' \in FilterPopped(io)
    /\ UNCHANGED <<norun, planners, pool>>

NextFilter == FilterPop

SpecFilter == InitFilter /\ [][NextFilter]_vars

\* the records of vals that are not repeated, in their order
NonRepeated(vals) == SelectSeq(vals, LAMBDA x : ~x.repeated)

\* C37: after construction and after every pop a singleton-filtered input
\* is either empty or has a head with repeated = false; the sequence of the
\* items it pops is exactly the subsequence of the records of the
\* underlying profile that are not repeated, in the same order.
C37_FilterYieldsSingles ==
    /\ io.state = "reading"
    /\ io.isempty \/ ~io.head.repeated
    /\ Len(io.out) <= Len(NonRepeated(io.vals))
    /\ io.out = SubSeq(NonRepeated(io.vals), 1, Len(io.out))
    /\ io.isempty <=> io.out = NonRepeated(io.vals)
    /\ ~io.isempty => io.head = NonRepeated(io.vals)[Len(io.out) + 1]

\* a profile of a single record and two repeated records behind it, the
\* filter popped once and empty
C37_Witness ==
    /\ Len(io.vals) = 3
    /\ ~io.vals[1].repeated /\ io.vals[2].repeated /\ io.vals[3].repeated
    /\ io.isempty
    /\ io.out = <<io.vals[1]>>
    /\ io.pops = 3

(***************************************************************************)
(* The append file: tell.                                                  *)
(***************************************************************************)
\* the bytes operator<< writes for x
WrittenFor(x) == IF x.kind = "value" THEN OffWidth ELSE Len(x.str) + 1

RECURSIVE WrittenSize(_)
\* the bytes written for the values vals
WrittenSize(vals) ==
    IF vals = <<>> THEN 0 ELSE WrittenFor(Head(vals)) + WrittenSize(Tail(vals))

\* C38: in buffer mode, after any sequence of writes to an append file,
\* tell() equals the position at open plus the number of bytes written so
\* far, whether those bytes are flushed already or still in the buffer;
\* this is the size a profile output reports when it is closed.
C38_TellCountsWritten ==
    io.app.tell = WrittenSize(io.vals)

(***************************************************************************)
(* main: the two log objects of MainConfig.                                *)
(***************************************************************************)
\* a step of one process: not the start of a program and not its kill
SameRun == runs' = runs /\ pc # "off" /\ pc' # "off"

\* hasRecoveryDone() does not go back to false
RecoveryStaysDone == (SameRun /\ pilog = 0) => pilog' = 0

\* the input log is read, the read position moving on in it: ilog() is
\* called while recovery is not done
IlogBeforeDone ==
    (SameRun /\ pilog' # pilog /\ pilog' # 0) => (pilog # 0 /\ ~polog.open)

\* a record is staged or synced: olog() is called once recovery is done
OlogAfterDone ==
    (SameRun /\ (polog'.writebuf # polog.writebuf \/ logfile' # logfile))
        => (polog'.open /\ pilog' = 0)

\* a call of recoveryDone on a configuration whose recovery is done
\* changes nothing
RecoveryDoneOnce ==
    pilog = 0 =>
        RecoveryDone(pilog, polog) = [pilog |-> pilog, polog |-> polog]

\* exactly one of the input log and the output log is open
OneLogOpen == (pilog # 0) # polog.open

\* C39: after start-up exactly one of the input log and the output log is
\* open at any time; hasRecoveryDone() never goes from true back to false,
\* recoveryDone() called when recovery is done already is a no-op, and no
\* stage calls ilog() after recovery is done or olog() before it, so that
\* the assertions in ilog() and olog() never fail.
C39_OneLogOpen ==
    /\ [](Running => (OneLogOpen /\ RecoveryDoneOnce))
    /\ [][RecoveryStaysDone /\ IlogBeforeDone /\ OlogAfterDone]_vars

\* a run on a log left by a killed run has replayed its records and, its
\* recovery done, staged a record of its own
C39_Witness ==
    /\ runs = 2
    /\ Running
    /\ Len(logAtStart.data) > 1
    /\ pilog = 0
    /\ polog.open
    /\ polog.writebuf # <<>>
====
